---- MODULE Spec2Model ----
(***************************************************************************)
(* Model of the MCP package: the connectors of mcp/connector.py (the       *)
(* abstract MCPConnector with health_check, HTTPConnector and              *)
(* WebSocketConnector), the server of mcp/server.py, the client of         *)
(* mcp/client.py and the SimpleMCPDemo of mcp/demo.py.                     *)
(*                                                                         *)
(* Spec      the connectors, driven by caller threads and by the           *)
(*           WebSocket background thread's callbacks                       *)
(* FairSpec  Spec with the fairness of running threads                     *)
(* AuthSpec  the server's routes and _authenticate over bounded headers    *)
(* SrvSpec   the MCPServer dispatcher with its registries and running      *)
(*           flag, or a SimpleMCPDemo with its registries                  *)
(* RunSpec   the MCPServer's start() and stop() with the threads serving   *)
(*           its port                                                      *)
(* RaceSpec  the MCPServer with its owner's threads registering, starting  *)
(*           and stopping while a handler thread lists the models          *)
(* SimSpec   the SimpleMCPConnector of mcp/demo.py                         *)
(* HdrSpec   the connectors of Spec, built with or without a token         *)
(* CliSpec   an MCPClient over the connector it built (or one put in its   *)
(*           place), facing a running MCPServer                            *)
(***************************************************************************)
EXTENDS Integers, Sequences, FiniteSets, TLC

(* ------------------------------ bounds ------------------------------- *)

\* sockets a WebSocketConnector may create in one behaviour
MaxSockets == 2
\* largest `timeout` (seconds, one poll each) a connector is configured with
MaxTimeout == 2
\* sessions an HTTPConnector may create in one behaviour
MaxSessions == 2
\* transport exchanges counted per connector
MaxExchanges == 2
\* longest Authorization header, in atoms
MaxHeaderLen == 3
\* longest input list handed to batch_predict or stream_predictions
MaxBatch == 2
\* transports an MCPClient's connect() calls may open in one behaviour
MaxConnects == 1
\* serving threads an MCPServer's start() calls may launch in one behaviour
MaxThreads == 2

(* ----------------------------- variables ----------------------------- *)

VARIABLES
  connType,       \* the connector built at construction: "http", "websocket",
                  \* or "base" for any other subclass of MCPConnector
  connToken,      \* MCPConnector.auth_token: a string, <<>> is '' and None
  httpLib,        \* `import requests` succeeds (fixed per behaviour)
  httpSession,    \* HTTPConnector._session: 0 is None, else the session's id
  httpAuth,       \* the Authorization header of the session created last
  httpMade,       \* sessions created so far
  httpConnected,  \* HTTPConnector._is_connected
  httpPosts,      \* POSTs performed on the wire
  wsLib,          \* `import websocket` succeeds (fixed per behaviour)
  wsTimeout,      \* WebSocketConnector.timeout
  wsHandle,       \* WebSocketConnector._websocket: 0 is None, else socket id
  wsAuth,         \* the Authorization header each WebSocketApp was given
  wsMade,         \* WebSocketApp objects created so far
  wsConnected,    \* WebSocketConnector._is_connected
  sock,           \* state of each WebSocketApp's background thread
  wsFrames,       \* frames transmitted with _websocket.send
  wsPc,           \* connect() caller: "idle" or "polling"
  wsPolls,        \* reads of the flag done by the running connect()
  wsPre,          \* _is_connected when the running connect() was called
  wsIntr,         \* a disconnect() ran while the running connect() polls
  sendPc,         \* send_request() caller: "idle" or "sending"
  sendPre,        \* the connector was Connected when the running send was called
  sendShut,       \* disconnect / close / error happened during the running send
  last,           \* the call that returned last
  srvToken,       \* MCPServer.auth_token: a string, <<>> is '' and None
  srvModels,      \* MCPServer._models: name -> kind, "absent" if unbound
  srvHandlers,    \* MCPServer._handlers
  srvLast,        \* the request answered last, with its response
  srvRunning,     \* MCPServer._is_running
  srvThreads,     \* the threads start() gave app.run to, in launch order
  srvCall,        \* the start() or stop() call made last
  srvListing,     \* the list_models view a handler thread is running
  srvStarters,    \* the start() calls in progress, per calling thread
  peerAuth,       \* the Authorization header the requesting peer attaches
  host,           \* the registry owner exercised: "MCPServer" or "SimpleMCPDemo"
  demoModels,     \* SimpleMCPDemo.models: name -> kind, "absent" if unbound
  demoHandlers,   \* SimpleMCPDemo.handlers
  demoLast,       \* the SimpleMCPDemo call that returned last
  simConf,        \* SimpleMCPConnector.endpoint and .auth_token
  simConnected,   \* SimpleMCPConnector._is_connected
  simLast,        \* the SimpleMCPConnector call that returned last
  cliConnected,   \* MCPClient._connected
  caller,         \* what the client's owner does with it: single "calls",
                  \* a "batch", a "stream", or a "with" statement
  cliIn,          \* the inputs handed to batch_predict / stream_predictions
  cliPc,          \* the client call in progress: "idle", "connect", "batch", "next"
  cliPos,         \* batch_predict: inputs taken so far
  cliRes,         \* batch_predict: `results`
  cliAsked,       \* batch_predict: the inputs predict was called with, in order
  genState,       \* the generator of stream_predictions: "none", "created",
                  \* "running", "suspended" (at its yield), "done"
  genPos,         \* inputs the generator has taken from input_stream
  genLog,         \* the result of predict for each input taken
  genOut,         \* the elements yielded so far
  cliLast,        \* the client call that returned last
  withPc          \* a `with client:` statement: "out" before it, "entering"
                  \* (in __enter__), "body", and after __exit__ "done" or,
                  \* when the body's exception goes on, "raised"

connConf == <<connType, connToken>>
httpVars == <<httpLib, httpAuth, httpSession, httpMade, httpConnected, httpPosts>>
wsVars == <<wsLib, wsAuth, wsTimeout, wsHandle, wsMade, wsConnected, sock, wsFrames,
            wsPc, wsPolls, wsPre, wsIntr, sendPc, sendPre, sendShut>>
inFlight == <<srvListing, srvStarters>>
srvVars == <<srvToken, srvModels, srvHandlers, srvLast, srvRunning, srvThreads,
             srvCall, peerAuth, inFlight>>
simVars == <<simConf, simConnected, simLast>>
demoVars == <<host, demoModels, demoHandlers, demoLast, simVars>>
cliVars == <<cliConnected, caller, cliIn, cliPc, cliPos, cliRes, cliAsked,
             genState, genPos, genLog, genOut, cliLast, withPc>>
vars == <<connConf, httpVars, wsVars, last, srvVars, demoVars, cliVars>>

(* ----------------------------- responses ----------------------------- *)

\* What send_request hands back: None, a JSON object, a JSON value that is
\* no object, or (for a subclass that does not catch) a raised exception.
NoneResp == [kind |-> "none", status |-> "absent", error |-> FALSE]
RaiseResp == [kind |-> "raise", status |-> "absent", error |-> FALSE]
ListResp == [kind |-> "list", status |-> "absent", error |-> FALSE]
DictResp(s) == [kind |-> "dict", status |-> s, error |-> FALSE]
ErrorResp == [kind |-> "dict", status |-> "absent", error |-> TRUE]
SentResp == DictResp("sent")

Responses ==
  {NoneResp, RaiseResp, ListResp, ErrorResp}
    \cup {DictResp(s) : s \in {"healthy", "unhealthy", "absent", "sent"}}

Methods == {"health_check", "models", "predict", "execute"}
Remotes == {"healthy", "unhealthy", "rejecting", "down"}

\* mutant: any answer counts as healthy
HealthCheck_anyreply(resp) == resp.kind \notin {"none", "raise"}

\* MCPConnector.health_check applied to the outcome of its send_request:
\* a raised exception and the AttributeError of `.get` on a non-object are
\* caught and give False.
HealthCheck(resp) ==
  CASE resp.kind = "raise" -> FALSE
    [] resp.kind = "none" -> FALSE
    [] resp.kind = "list" -> FALSE
    [] OTHER -> resp.status = "healthy"

\* The record kept of a returned call: which connector and operation, the
\* boolean returned (ok) or the response returned (ret), whether the
\* connector was Connected when called (pre) and at the return (post), the
\* transport handle it was left with, the exchanges performed and transports
\* opened by the call, the flag reads of a WebSocket connect (polls),
\* whether a disconnect or a close/error callback ran during the call
\* (intr), whether the call's own probe or open signal succeeded (sig), and
\* how the remote service was disposed to answer the call (env).
NoCall ==
  [conn |-> "none", op |-> "none", ok |-> FALSE, ret |-> NoneResp,
   pre |-> FALSE, post |-> FALSE, handle |-> 0, exch |-> 0, opened |-> 0,
   polls |-> 0, intr |-> FALSE, sig |-> FALSE, env |-> "none"]

Call(conn, op) == [NoCall EXCEPT !.conn = conn, !.op = op]

\* A request's Authorization header: absent, or a string.
NoHeader == [present |-> FALSE, value |-> <<>>]
Header(s) == [present |-> TRUE, value |-> s]

\* mutant: the header is built whether or not a token is configured
BearerHeader_unconditional(token) == Header(<<"Bearer", " ">> \o token)

\* `if self.auth_token:` 'Authorization': f'Bearer {self.auth_token}'
BearerHeader(token) ==
  IF token = <<>> THEN NoHeader ELSE Header(<<"Bearer", " ">> \o token)

(* --------------------------- HTTPConnector --------------------------- *)

\* The remote service's answer to one POST, as send_request sees it:
\* raise_for_status turns a non-2xx status into an exception, and so does
\* an unreachable host; both are caught and give None.
HTTPExchange(remote, method) ==
  CASE remote = "down" -> NoneResp
    [] remote = "rejecting" -> NoneResp
    [] remote = "unhealthy" ->
         IF method = "health_check" THEN DictResp("unhealthy") ELSE ListResp
    [] OTHER ->
         IF method = "health_check" THEN DictResp("healthy") ELSE DictResp("absent")

\* mutant: the guard forgets the connection flag
HTTPNotConnected_sessiononly(session, connected) == session = 0

\* `not self._session or not self._is_connected`
HTTPNotConnected(session, connected) == session = 0 \/ ~connected

\* HTTPConnector.send_request on a connector with this session and flag:
\* the value returned and the number of POSTs performed.
HTTPSendRequest(session, connected, remote, method) ==
  IF HTTPNotConnected(session, connected)
    THEN [ret |-> NoneResp, exch |-> 0]
    ELSE [ret |-> HTTPExchange(remote, method), exch |-> 1]

HTTPConnect ==
  \E remote \in Remotes :
  /\ connType = "http"
  /\ IF ~httpLib
       THEN \* ImportError: nothing was assigned
            /\ last' = [Call("http", "connect") EXCEPT
                          !.pre = httpConnected, !.post = httpConnected,
                          !.handle = httpSession, !.env = remote]
            /\ UNCHANGED <<httpAuth, httpSession, httpMade, httpConnected,
                           httpPosts>>
       ELSE /\ httpMade < MaxSessions
            /\ LET s == httpMade + 1
                   probe == HTTPSendRequest(s, httpConnected, remote, "health_check")
                   ok == HealthCheck(probe.ret)
               IN /\ httpPosts + probe.exch <= MaxExchanges
                  /\ httpSession' = s
                  /\ httpAuth' = BearerHeader(connToken)
                  /\ httpMade' = s
                  /\ httpConnected' = ok
                  /\ httpPosts' = httpPosts + probe.exch
                  /\ last' = [Call("http", "connect") EXCEPT
                                !.ok = ok, !.ret = probe.ret,
                                !.pre = httpConnected, !.post = ok,
                                !.handle = s, !.exch = probe.exch,
                                !.opened = 1,
                                !.sig = ok /\ probe.exch = 1,
                                !.env = remote]
  /\ UNCHANGED <<httpLib, wsVars, srvVars, connConf>>

\* mutant: the flag survives the disconnect
HTTPDisconnect_keepflag ==
  /\ connType = "http"
  /\ httpSession' = 0
  /\ httpConnected' = httpConnected
  /\ last' = [Call("http", "disconnect") EXCEPT
                !.pre = httpConnected, !.post = httpConnected',
                !.handle = httpSession']
  /\ UNCHANGED <<httpLib, httpAuth, httpMade, httpPosts, wsVars, srvVars, connConf>>

HTTPDisconnect ==
  /\ connType = "http"
  /\ httpSession' = 0
  /\ httpConnected' = FALSE
  /\ last' = [Call("http", "disconnect") EXCEPT
                !.pre = httpConnected, !.post = httpConnected',
                !.handle = httpSession']
  /\ UNCHANGED <<httpLib, httpAuth, httpMade, httpPosts, wsVars, srvVars, connConf>>

HTTPSend ==
  \E method \in Methods, remote \in Remotes :
    LET r == HTTPSendRequest(httpSession, httpConnected, remote, method)
    IN /\ connType = "http"
       /\ httpPosts + r.exch <= MaxExchanges
       /\ httpPosts' = httpPosts + r.exch
       /\ last' = [Call("http", "send_request") EXCEPT
                      !.ret = r.ret, !.pre = httpConnected /\ httpSession # 0,
                      !.post = httpConnected, !.handle = httpSession,
                      !.exch = r.exch, !.env = remote]
       /\ UNCHANGED <<httpLib, httpAuth, httpSession, httpMade, httpConnected,
                      wsVars, srvVars, connConf>>

\* health_check called on its own on an HTTPConnector
HTTPHealthCheck ==
  \E remote \in Remotes :
  LET r == HTTPSendRequest(httpSession, httpConnected, remote, "health_check")
  IN /\ connType = "http"
     /\ httpPosts + r.exch <= MaxExchanges
     /\ httpPosts' = httpPosts + r.exch
     /\ last' = [Call("http", "health_check") EXCEPT
                    !.ok = HealthCheck(r.ret), !.ret = r.ret,
                    !.pre = httpConnected /\ httpSession # 0,
                    !.post = httpConnected, !.handle = httpSession,
                    !.exch = r.exch, !.env = remote]
     /\ UNCHANGED <<httpLib, httpAuth, httpSession, httpMade, httpConnected,
                    wsVars, srvVars, connConf>>

\* health_check of any MCPConnector subclass: send_request is abstract, so
\* its outcome is any response, or an exception.
BaseHealthCheck ==
  \E resp \in Responses :
    /\ connType = "base"
    /\ last' = [Call("base", "health_check") EXCEPT
                   !.ok = HealthCheck(resp), !.ret = resp]
    /\ UNCHANGED <<httpVars, wsVars, srvVars, connConf>>

(* ------------------------- WebSocketConnector ------------------------ *)

Sockets == 1..MaxSockets

\* A WebSocketApp's background thread (run_forever): not created, connecting,
\* open, failed, closed; the C suffix marks that close() was called on it.
SockStates == {"unborn", "starting", "startingC", "open", "openC", "errored", "closed"}

\* WebSocketApp.close(): the thread is told to stop; its callbacks follow.
Closed(st) ==
  CASE st = "starting" -> "startingC"
    [] st = "open" -> "openC"
    [] OTHER -> st

\* on_open of socket s, run by its background thread
OnOpen(s) ==
  /\ connType = "websocket"
  /\ sock[s] \in {"starting", "startingC"}
  /\ sock' = [sock EXCEPT ![s] = IF sock[s] = "starting" THEN "open" ELSE "openC"]
  /\ wsConnected' = TRUE
  /\ UNCHANGED <<wsLib, wsAuth, wsTimeout, wsHandle, wsMade, wsFrames, wsPc, wsPolls,
                 wsPre, wsIntr, sendPc, sendPre, sendShut, last, httpVars, srvVars, connConf>>

\* on_error of socket s
OnError(s) ==
  /\ connType = "websocket"
  /\ sock[s] \in {"starting", "startingC", "open", "openC"}
  /\ sock' = [sock EXCEPT ![s] = "errored"]
  /\ wsConnected' = FALSE
  /\ sendShut' = (sendPc = "sending")
  /\ UNCHANGED <<wsLib, wsAuth, wsTimeout, wsHandle, wsMade, wsFrames, wsPc, wsPolls,
                 wsPre, wsIntr, sendPc, sendPre, last, httpVars, srvVars, connConf>>

\* on_close of socket s
OnClose(s) ==
  /\ connType = "websocket"
  /\ sock[s] \in {"startingC", "open", "openC", "errored"}
  /\ sock' = [sock EXCEPT ![s] = "closed"]
  /\ wsConnected' = FALSE
  /\ sendShut' = (sendPc = "sending")
  /\ UNCHANGED <<wsLib, wsAuth, wsTimeout, wsHandle, wsMade, wsFrames, wsPc, wsPolls,
                 wsPre, wsIntr, sendPc, sendPre, last, httpVars, srvVars, connConf>>

\* mutant: one poll too many
PollLimit_offbyone == wsTimeout + 1

\* `for _ in range(self.timeout)`
PollLimit == wsTimeout

\* connect(): the import, the WebSocketApp, the thread start
WSConnectStart ==
  /\ connType = "websocket"
  /\ wsPc = "idle"
  /\ IF ~wsLib
       THEN \* ImportError: nothing was assigned
            /\ last' = [Call("ws", "connect") EXCEPT
                          !.pre = wsConnected, !.post = wsConnected]
            /\ UNCHANGED <<wsAuth, wsHandle, wsMade, sock, wsPc, wsPolls, wsPre,
                           wsIntr>>
       ELSE /\ wsMade < MaxSockets
            /\ wsHandle' = wsMade + 1
            /\ wsAuth' = [wsAuth EXCEPT ![wsMade + 1] = BearerHeader(connToken)]
            /\ wsMade' = wsMade + 1
            /\ sock' = [sock EXCEPT ![wsMade + 1] = "starting"]
            /\ wsPc' = "polling"
            /\ wsPolls' = 0
            /\ wsPre' = wsConnected
            /\ wsIntr' = FALSE
            /\ UNCHANGED last
  /\ UNCHANGED <<wsLib, wsTimeout, wsConnected, wsFrames, sendPc, sendPre, sendShut,
                 httpVars, srvVars, connConf>>

\* The record of a connect() that returns now with value ok after n flag reads.
WSConnectReturn(ok, n) ==
  [Call("ws", "connect") EXCEPT
     !.ok = ok, !.pre = wsPre, !.post = wsConnected, !.opened = 1, !.polls = n, !.intr = wsIntr,
     !.sig = sock[wsMade] \in {"open", "openC"}]

\* one iteration of the wait loop: read the flag, return True or sleep
WSConnectPoll ==
  /\ connType = "websocket"
  /\ wsPc = "polling"
  /\ wsPolls < PollLimit
  /\ IF wsConnected
       THEN /\ wsPc' = "idle"
            /\ last' = WSConnectReturn(TRUE, wsPolls + 1)
            /\ wsPolls' = 0
            /\ wsPre' = FALSE
            /\ wsIntr' = FALSE
       ELSE /\ wsPolls' = wsPolls + 1
            /\ UNCHANGED <<wsPc, last, wsPre, wsIntr>>
  /\ UNCHANGED <<wsLib, wsAuth, wsTimeout, wsHandle, wsMade, wsConnected, sock, wsFrames,
                 sendPc, sendPre, sendShut, httpVars, srvVars, connConf>>

\* the loop is exhausted: return False
WSConnectTimeout ==
  /\ connType = "websocket"
  /\ wsPc = "polling"
  /\ wsPolls >= PollLimit
  /\ wsPc' = "idle"
  /\ last' = WSConnectReturn(FALSE, wsPolls)
  /\ wsPolls' = 0
  /\ wsPre' = FALSE
  /\ wsIntr' = FALSE
  /\ UNCHANGED <<wsLib, wsAuth, wsTimeout, wsHandle, wsMade, wsConnected, sock, wsFrames,
                 sendPc, sendPre, sendShut, httpVars, srvVars, connConf>>

\* mutant: the flag survives the disconnect
WSDisconnect_keepflag ==
  /\ connType = "websocket"
  /\ sock' = IF wsHandle # 0
               THEN [sock EXCEPT ![wsHandle] = Closed(sock[wsHandle])]
               ELSE sock
  /\ wsHandle' = 0
  /\ wsConnected' = wsConnected
  /\ wsIntr' = (wsPc = "polling")
  /\ sendShut' = (sendPc = "sending")
  /\ last' = [Call("ws", "disconnect") EXCEPT
                !.pre = wsConnected, !.post = wsConnected',
                !.handle = wsHandle']
  /\ UNCHANGED <<wsLib, wsAuth, wsTimeout, wsMade, wsFrames, wsPc, wsPolls,
                 wsPre, sendPc, sendPre, httpVars, srvVars, connConf>>

WSDisconnect ==
  /\ connType = "websocket"
  /\ sock' = IF wsHandle # 0
               THEN [sock EXCEPT ![wsHandle] = Closed(sock[wsHandle])]
               ELSE sock
  /\ wsHandle' = 0
  /\ wsConnected' = FALSE
  /\ wsIntr' = (wsPc = "polling")
  /\ sendShut' = (sendPc = "sending")
  /\ last' = [Call("ws", "disconnect") EXCEPT
                !.pre = wsConnected, !.post = wsConnected',
                !.handle = wsHandle']
  /\ UNCHANGED <<wsLib, wsAuth, wsTimeout, wsMade, wsFrames, wsPc, wsPolls, wsPre,
                 sendPc, sendPre, httpVars, srvVars, connConf>>

\* `not self._websocket or not self._is_connected`
WSNotConnected == wsHandle = 0 \/ ~wsConnected

\* The request literal names `request` inside its own display
\* ('id': id(request)): the local is read before it is bound, so building it
\* raises UnboundLocalError, which the `except Exception` catches.
WSRequestBuilt == FALSE

\* send_request(): the guard
WSSendStart ==
  /\ connType = "websocket"
  /\ sendPc = "idle"
  /\ IF WSNotConnected
       THEN /\ last' = [Call("ws", "send_request") EXCEPT
                          !.pre = wsConnected /\ wsHandle # 0,
                          !.handle = wsHandle]
            /\ UNCHANGED <<sendPc, sendPre, sendShut>>
       ELSE /\ sendPc' = "sending"
            /\ sendPre' = (wsConnected /\ wsHandle # 0)
            /\ sendShut' = FALSE
            /\ UNCHANGED last
  /\ UNCHANGED <<wsLib, wsAuth, wsTimeout, wsHandle, wsMade, wsConnected, sock, wsFrames,
                 wsPc, wsPolls, wsPre, wsIntr, httpVars, srvVars, connConf>>

\* A frame can be written: the handle is still there and its socket is open.
WSCanTransmit == wsHandle # 0 /\ sock[wsHandle] = "open"

\* mutant: after the guard the call waits for a reply, with no deadline
WSSendFinish_waits ==
  /\ connType = "websocket"
  /\ sendPc = "sending"
  /\ ~sendShut
  /\ sendPc' = "idle"
  /\ sendPre' = FALSE
  /\ last' = [Call("ws", "send_request") EXCEPT
                !.pre = sendPre]
  /\ UNCHANGED <<wsLib, wsAuth, wsTimeout, wsHandle, wsMade, wsConnected, sock, wsFrames,
                 wsPc, wsPolls, wsPre, wsIntr, sendShut, httpVars, srvVars, connConf>>

\* send_request(): the try block, entered with the guard passed
WSSendFinish ==
  /\ connType = "websocket"
  /\ sendPc = "sending"
  /\ sendPc' = "idle"
  /\ LET sent == WSRequestBuilt /\ WSCanTransmit
     IN /\ wsFrames + (IF sent THEN 1 ELSE 0) <= MaxExchanges
        /\ wsFrames' = wsFrames + (IF sent THEN 1 ELSE 0)
        /\ last' = [Call("ws", "send_request") EXCEPT
                      !.ret = IF sent THEN SentResp ELSE NoneResp,
                      !.pre = sendPre,
                      !.exch = IF sent THEN 1 ELSE 0, !.intr = sendShut]
  /\ sendPre' = FALSE
  /\ sendShut' = FALSE
  /\ UNCHANGED <<wsLib, wsAuth, wsTimeout, wsHandle, wsMade, wsConnected, sock,
                 wsPc, wsPolls, wsPre, wsIntr, httpVars, srvVars, connConf>>


(* ----------------------------- MCPServer ----------------------------- *)

\* Strings are sequences of atoms: a word or the space character; no word
\* is spelled by other atoms, so equal strings are equal sequences.
Atoms == {"Bearer", "bearer", "Basic", "secret", " "}

\* str.lower() on one atom
LowerAtom(a) ==
  CASE a = "Bearer" -> "bearer"
    [] a = "Basic" -> "basic"
    [] OTHER -> a

\* str.lower()
Lower(s) == [i \in 1..Len(s) |-> LowerAtom(s[i])]

\* The strings of at most n atoms.
Strings(n) == UNION {[1..k -> Atoms] : k \in 0..n}

\* str.split(' ', 1): cut at the first space, if there is one
SplitOnce(s) ==
  IF \E i \in 1..Len(s) : s[i] = " "
    THEN LET i == CHOOSE k \in 1..Len(s) :
                    s[k] = " " /\ \A j \in 1..(k - 1) : s[j] # " "
         IN <<SubSeq(s, 1, i - 1), SubSeq(s, i + 1, Len(s))>>
    ELSE <<s>>

\* mutant: only the scheme is compared
Authenticate_schemeonly(token, hdr) ==
  IF token = <<>>
    THEN TRUE
    ELSE IF ~hdr.present \/ hdr.value = <<>>
           THEN FALSE
           ELSE LET parts == SplitOnce(hdr.value)
                IN IF Len(parts) # 2
                     THEN FALSE
                     ELSE Lower(parts[1]) = <<"bearer">>

\* MCPServer._authenticate: a falsy credential ('' or None) admits all;
\* unpacking a split without two parts raises ValueError, caught as False.
Authenticate(token, hdr) ==
  IF token = <<>>
    THEN TRUE
    ELSE IF ~hdr.present \/ hdr.value = <<>>
           THEN FALSE
           ELSE LET parts == SplitOnce(hdr.value)
                IN IF Len(parts) # 2
                     THEN FALSE
                     ELSE Lower(parts[1]) = <<"bearer">> /\ parts[2] = token

Names == {"alpha", "beta"}
Routes == {"health_check", "models", "predict", "execute"}
Verbs == {"GET", "POST"}
\* a registered model: has predict, has predict that raises, is only
\* callable, is neither
ModelKinds == {"predicts", "raises", "callable", "inert"}
\* a registered handler: returns, raises
HandlerKinds == {"returns", "raises"}
\* the JSON values a body carries under `input` and under `params`
Inputs == {"x1", "x2"}
Params == {"p1"}
\* the `{}` that data.get('params', {}) falls back to
EmptyParams == "{}"

\* request.get_json(): an object with `input`, an object with `params` and
\* no `input`, an empty object, None (the body `null`), or a body that is no
\* JSON, for which get_json raises BadRequest
BodyKinds == {"input", "params", "empty", "none", "malformed"}
Body(kind, val) == [kind |-> kind, val |-> val]
Bodies ==
  {Body("input", x) : x \in Inputs} \cup {Body("params", p) : p \in Params}
    \cup {Body(k, "") : k \in {"empty", "none", "malformed"}}

\* `methods=[...]` of each route
Allowed(route) ==
  CASE route = "health_check" -> {"GET", "POST"}
    [] route = "models" -> {"GET"}
    [] OTHER -> {"POST"}

\* A response: its status, which payload it carries (kind), the name the
\* payload gives under `model` or `handler`, the value under `prediction`,
\* `result` or `models`, the message under `error`, and (no part of the
\* body) the invocations made while the request was served.
NoValue == <<>>
Resp(status, kind, name) ==
  [status |-> status, kind |-> kind, name |-> name, value |-> NoValue,
   msg |-> <<>>, calls |-> <<>>]

Success(kind, name, value, calls) ==
  [Resp(200, kind, name) EXCEPT !.value = value, !.calls = calls]

\* mutant: the error object is returned without its status, which Flask
\* takes for 200
Failure_nostatus(status, msg, calls) ==
  [Resp(200, "error", "") EXCEPT !.msg = msg, !.calls = calls]

Failure(status, msg, calls) ==
  [Resp(status, "error", "") EXCEPT !.msg = msg, !.calls = calls]

\* Flask's own answer to a verb the route's `methods` leave out: status 405
\* with werkzeug's HTML page, which is no JSON object
MethodNotAllowed == Resp(405, "page", "")

\* The payload has the fields of a success: `status`, `models`, or
\* `prediction` / `result` beside `model` / `handler`.
SuccessFields(resp) == resp.kind \in {"healthy", "models", "prediction", "result"}

\* The payload has the field `error`.
ErrorField(resp) == resp.kind = "error"

\* one invocation of a registered object: model.predict(arg), model(arg) or
\* handler(arg)
Invocation(reg, name, obj, how, arg) ==
  [reg |-> reg, name |-> name, obj |-> obj, how |-> how, arg |-> arg]

\* what a model's predict (or the model called) and a handler return, and
\* the str() of what they raise
ModelOut(model, x) == <<model, x>>
HandlerOut(handler, p) == <<handler, p>>
Raised(obj) == <<"raised by", obj>>

\* mutant: the message does not name what was asked for
NotFoundMsg_noname(what, name) == <<what, "not found">>

\* f'Model {model_name} not found', f'Handler {handler_name} not found'
NotFoundMsg(what, name) == <<what, name, "not found">>

\* mutant: the model bound to some other name is the one invoked
Bound_other(models, name) ==
  IF \E n \in Names : n # name /\ models[n] # "absent"
    THEN models[CHOOSE n \in Names : n # name /\ models[n] # "absent"]
    ELSE models[name]

\* `self._models[model_name]`, `self._handlers[handler_name]`
Bound(registry, name) == registry[name]

\* The predict view after authentication and lookup. get_json raising on a
\* malformed body, `'input' not in None` and the model raising all happen
\* inside the try and end in the 500 of `except Exception`.
Predict(models, name, body) ==
  LET model == Bound(models, name)
      viaPredict == Invocation("model", name, model, "predict", body.val)
      viaCall == Invocation("model", name, model, "__call__", body.val)
  IN CASE body.kind = "malformed" -> Failure(500, <<"400 Bad Request">>, <<>>)
       [] body.kind = "none" ->
            Failure(500, <<"argument of type 'NoneType' is not iterable">>, <<>>)
       [] body.kind # "input" -> Failure(400, <<"Missing input data">>, <<>>)
       [] model = "predicts" ->
            Success("prediction", name, ModelOut(model, body.val), <<viaPredict>>)
       [] model = "raises" -> Failure(500, Raised(model), <<viaPredict>>)
       [] model = "callable" ->
            Success("prediction", name, ModelOut(model, body.val), <<viaCall>>)
       [] OTHER ->
            Failure(400, <<"Model does not support prediction">>, <<>>)

\* mutant: a raising handler takes the failure out of the view (Flask then
\* answers 500 with its own page, without the message)
Execute_uncaught(handlers, name, body) ==
  LET handler == Bound(handlers, name)
      arg == IF body.kind = "params" THEN body.val ELSE EmptyParams
      call == Invocation("handler", name, handler, "__call__", arg)
  IN CASE body.kind = "malformed" -> Failure(500, <<"400 Bad Request">>, <<>>)
       [] handler = "raises" -> Failure(500, <<"Internal Server Error">>, <<call>>)
       [] OTHER -> Success("result", name, HandlerOut(handler, arg), <<call>>)

\* The execute_handler view after authentication and lookup:
\* `request.get_json() or {}`, then `handler(data.get('params', {}))`.
Execute(handlers, name, body) ==
  LET handler == Bound(handlers, name)
      arg == IF body.kind = "params" THEN body.val ELSE EmptyParams
      call == Invocation("handler", name, handler, "__call__", arg)
  IN CASE body.kind = "malformed" -> Failure(500, <<"400 Bad Request">>, <<>>)
       [] handler = "raises" -> Failure(500, Raised(handler), <<call>>)
       [] OTHER -> Success("result", name, HandlerOut(handler, arg), <<call>>)

\* the names bound in a registry
Registered(registry) == {n \in Names : registry[n] # "absent"}

\* mutant: the listing leaves out the name that sorts first
Listing_dropsone(models) ==
  [n \in Registered(models) \ {"alpha"} |->
     [type |-> models[n], loaded |-> TRUE]]

\* models_info of the list_models view: one descriptor per item of _models
Listing(models) ==
  [n \in Registered(models) |-> [type |-> models[n], loaded |-> TRUE]]

\* mutant: the registry is looked up before the credential is checked
Dispatch_lookupfirst(token, models, handlers, req) ==
  CASE req.verb \notin Allowed(req.route) ->
         MethodNotAllowed
    [] req.route = "health_check" -> Success("healthy", "", NoValue, <<>>)
    [] req.route = "predict" /\ models[req.name] = "absent" ->
         Failure(404, NotFoundMsg("Model", req.name), <<>>)
    [] req.route = "execute" /\ handlers[req.name] = "absent" ->
         Failure(404, NotFoundMsg("Handler", req.name), <<>>)
    [] ~Authenticate(token, req.auth) -> Failure(401, <<"Unauthorized">>, <<>>)
    [] req.route = "models" -> Success("models", "", <<Listing(models)>>, <<>>)
    [] req.route = "predict" -> Predict(models, req.name, req.body)
    [] OTHER -> Execute(handlers, req.name, req.body)

\* The response of the Flask application to one request: the routing by
\* method, then the view.
Dispatch(token, models, handlers, req) ==
  CASE req.verb \notin Allowed(req.route) ->
         MethodNotAllowed
    [] req.route = "health_check" -> Success("healthy", "", NoValue, <<>>)
    [] ~Authenticate(token, req.auth) -> Failure(401, <<"Unauthorized">>, <<>>)
    [] req.route = "models" -> Success("models", "", <<Listing(models)>>, <<>>)
    [] req.route = "predict" ->
         IF models[req.name] = "absent"
           THEN Failure(404, NotFoundMsg("Model", req.name), <<>>)
           ELSE Predict(models, req.name, req.body)
    [] OTHER ->
         IF handlers[req.name] = "absent"
           THEN Failure(404, NotFoundMsg("Handler", req.name), <<>>)
           ELSE Execute(handlers, req.name, req.body)

Request(verb, route, name, auth, body) ==
  [verb |-> verb, route |-> route, name |-> name, auth |-> auth, body |-> body]

NoRequest ==
  [req |-> Request("GET", "none", "", NoHeader, Body("none", "")),
   resp |-> Resp(0, "none", "")]

\* No list_models view is running. A running one holds the size of _models
\* when its iterator was made (used), the descriptor written for each item
\* taken so far (info) and, for the record, every registry the iteration has
\* lived through (snaps).
NoListing ==
  [pc |-> "none", used |-> 0, info |-> [n \in Names |-> "untaken"], snaps |-> {}]

\* The record of a running listing once _models has become reg.
LivedThrough(reg) ==
  IF srvListing.pc = "iterating"
    THEN [srvListing EXCEPT !.snaps = @ \cup {reg}]
    ELSE srvListing

\* mutant: the registry is made anew with the one entry
RegisterModel_alone(name, model) ==
  /\ srvModels' = [n \in Names |-> IF n = name THEN model ELSE "absent"]
  /\ srvListing' = LivedThrough(srvModels')
  /\ UNCHANGED <<srvToken, srvHandlers, srvLast, srvRunning, srvThreads,
                 srvCall, peerAuth, srvStarters,
                 connConf, httpVars, wsVars, last>>

\* register_model: one store into the dict
RegisterModel(name, model) ==
  /\ srvModels' = [srvModels EXCEPT ![name] = model]
  /\ srvListing' = LivedThrough(srvModels')
  /\ UNCHANGED <<srvToken, srvHandlers, srvLast, srvRunning, srvThreads,
                 srvCall, peerAuth, srvStarters,
                 connConf, httpVars, wsVars, last>>

\* register_handler
RegisterHandler(name, handler) ==
  /\ srvHandlers' = [srvHandlers EXCEPT ![name] = handler]
  /\ UNCHANGED <<srvToken, srvModels, srvLast, srvRunning, srvThreads,
                 srvCall, peerAuth, inFlight,
                 connConf, httpVars, wsVars, last>>

\* one request served
Serve(req) ==
  /\ srvLast' = [req |-> req,
                 resp |-> Dispatch(srvToken, srvModels, srvHandlers, req)]
  /\ UNCHANGED <<srvToken, srvModels, srvHandlers, srvRunning, srvThreads,
                 srvCall, peerAuth, inFlight,
                 connConf, httpVars, wsVars, last>>

\* A thread running app.run: "starting" until the listening socket is
\* bound, then "serving", and "exited" once app.run has raised or returned;
\* bg tells a background thread from the caller's own (threaded=False).
Thread(st, bg) == [st |-> st, bg |-> bg]

\* Some thread is bound to host:port and accepts requests.
Accepting == \E i \in 1..Len(srvThreads) : srvThreads[i].st = "serving"

\* The record of a start() or stop() call: the flag when it was called and
\* the threads it gave app.run to.
NoSrvCall == [op |-> "none", pre |-> FALSE, launched |-> 0]

\* mutant: start() does not look at the flag
AlreadyRunning_never == FALSE

\* `if self._is_running`
AlreadyRunning == srvRunning

\* start(threaded): a no-op with a warning when the flag is set; else
\* app.run is given to a new daemon thread, or called in place, and the
\* flag is set without waiting for the socket to be bound
Start(threaded) ==
  /\ IF AlreadyRunning
       THEN /\ srvCall' = [op |-> "start", pre |-> srvRunning, launched |-> 0]
            /\ UNCHANGED <<srvRunning, srvThreads>>
       ELSE /\ Len(srvThreads) < MaxThreads
            /\ srvThreads' = Append(srvThreads, Thread("starting", threaded))
            /\ srvRunning' = TRUE
            /\ srvCall' = [op |-> "start", pre |-> srvRunning, launched |-> 1]
  /\ UNCHANGED <<srvToken, srvModels, srvHandlers, srvLast, peerAuth, inFlight,
                 connConf, httpVars, wsVars, last>>

\* mutant: stop() also empties the registries
Stop_clears ==
  /\ srvRunning' = FALSE
  /\ srvCall' = [op |-> "stop", pre |-> srvRunning, launched |-> 0]
  /\ srvModels' = [n \in Names |-> "absent"]
  /\ srvHandlers' = [n \in Names |-> "absent"]
  /\ UNCHANGED <<srvToken, srvLast, srvThreads, peerAuth,
                 inFlight, connConf, httpVars, wsVars, last>>

\* stop(): the flag is cleared; no thread is told anything
Stop ==
  /\ srvRunning' = FALSE
  /\ srvCall' = [op |-> "stop", pre |-> srvRunning, launched |-> 0]
  /\ UNCHANGED <<srvToken, srvModels, srvHandlers, srvLast, srvThreads, peerAuth,
                 inFlight, connConf, httpVars, wsVars, last>>

\* app.run binds host:port in thread i and starts accepting; the port is
\* free of this server's other threads
ThreadBind(i) ==
  /\ srvThreads[i].st = "starting"
  /\ ~Accepting
  /\ srvThreads' = [srvThreads EXCEPT ![i].st = "serving"]
  /\ UNCHANGED <<srvToken, srvModels, srvHandlers, srvLast, srvRunning, srvCall,
                 peerAuth, inFlight, connConf, httpVars, wsVars, last>>

\* app.run fails to bind in thread i (the port is held by another thread
\* of this server or by another process): OSError ends the thread
ThreadFail(i) ==
  /\ srvThreads[i].st = "starting"
  /\ srvThreads' = [srvThreads EXCEPT ![i].st = "exited"]
  /\ UNCHANGED <<srvToken, srvModels, srvHandlers, srvLast, srvRunning, srvCall,
                 peerAuth, inFlight, connConf, httpVars, wsVars, last>>

\* app.run returns in the caller's own thread (threaded=False) after an
\* interrupt, and start() returns with it
ThreadReturn(i) ==
  /\ srvThreads[i].st = "serving"
  /\ ~srvThreads[i].bg
  /\ srvThreads' = [srvThreads EXCEPT ![i].st = "exited"]
  /\ UNCHANGED <<srvToken, srvModels, srvHandlers, srvLast, srvRunning, srvCall,
                 peerAuth, inFlight, connConf, httpVars, wsVars, last>>

\* Flask's own answer to an exception that leaves a view: status 500 with
\* werkzeug's HTML page
ServerError == Resp(500, "page", "")

\* the request a list_models view answers
ListRequest == Request("GET", "models", "alpha", peerAuth, Body("empty", ""))

\* The list_models view, in a handler thread of the serving thread
\* (app.run(threaded=True)), passes _authenticate and makes the iterator of
\* `self._models.items()`.
ListBegin ==
  /\ Accepting
  /\ srvListing.pc = "none"
  /\ Authenticate(srvToken, peerAuth)
  /\ srvListing' = [pc |-> "iterating",
                    used |-> Cardinality(Registered(srvModels)),
                    info |-> [n \in Names |-> "untaken"],
                    snaps |-> {srvModels}]
  /\ UNCHANGED <<srvToken, srvModels, srvHandlers, srvLast, srvRunning,
                 srvThreads, srvCall, peerAuth, srvStarters,
                 connConf, httpVars, wsVars, last>>

\* models_info as the loop has filled it
ModelsInfo(info) ==
  [n \in {m \in Names : info[m] # "untaken"} |->
     [type |-> info[n], loaded |-> TRUE]]

\* One turn of `for name, model in self._models.items()`: the iterator
\* raises RuntimeError (dictionary changed size during iteration) when
\* _models has another size than when it was made, which leaves the view
\* uncaught; else it hands out the next item, whose descriptor is written
\* from the model bound now; else the loop ends and the view returns. The
\* items come in the order the names were first registered in, which is any
\* order here.
ListStep ==
  /\ srvListing.pc = "iterating"
  /\ LET keys == Registered(srvModels)
         rest == {n \in keys : srvListing.info[n] = "untaken"}
     IN IF Cardinality(keys) # srvListing.used
          THEN /\ srvLast' = [req |-> ListRequest, resp |-> ServerError]
               /\ srvListing' = NoListing
          ELSE IF rest # {}
                 THEN /\ \E n \in rest :
                           srvListing' =
                             [srvListing EXCEPT !.info[n] = srvModels[n]]
                      /\ UNCHANGED srvLast
                 ELSE /\ srvLast' =
                           [req |-> ListRequest,
                            resp |-> Success("models", "",
                                             <<ModelsInfo(srvListing.info)>>,
                                             <<>>)]
                      /\ srvListing' = NoListing
  /\ UNCHANGED <<srvToken, srvModels, srvHandlers, srvRunning, srvThreads,
                 srvCall, peerAuth, srvStarters,
                 connConf, httpVars, wsVars, last>>

\* the threads that may call start()
Callers == {"t1", "t2"}

\* No start() call is between its check of the flag and its launch.
NoStarters == [c \in Callers |-> "out"]

\* start() in thread c reads the flag: set, it warns and returns; clear, it
\* goes on to the launch. No lock is held in between.
StartCheck(c) ==
  /\ srvStarters[c] = "out"
  /\ IF AlreadyRunning
       THEN /\ srvCall' = [op |-> "start", pre |-> TRUE, launched |-> 0]
            /\ UNCHANGED srvStarters
       ELSE /\ srvStarters' = [srvStarters EXCEPT ![c] = "checked"]
            /\ UNCHANGED srvCall
  /\ UNCHANGED <<srvToken, srvModels, srvHandlers, srvLast, srvRunning,
                 srvThreads, peerAuth, srvListing,
                 connConf, httpVars, wsVars, last>>

\* start() in thread c, past its check: app.run is given to a new daemon
\* thread and the flag is set
StartLaunch(c) ==
  /\ srvStarters[c] = "checked"
  /\ Len(srvThreads) < MaxThreads
  /\ srvThreads' = Append(srvThreads, Thread("starting", TRUE))
  /\ srvRunning' = TRUE
  /\ srvCall' = [op |-> "start", pre |-> FALSE, launched |-> 1]
  /\ srvStarters' = [srvStarters EXCEPT ![c] = "out"]
  /\ UNCHANGED <<srvToken, srvModels, srvHandlers, srvLast, peerAuth,
                 srvListing, connConf, httpVars, wsVars, last>>

\* Nothing of the server is under way: no listing, no start().
SrvQuiet == srvListing = NoListing /\ srvStarters = NoStarters

(* --------------------------- SimpleMCPDemo --------------------------- *)

\* What a SimpleMCPDemo call hands back: a value, an {'error': msg}
\* dictionary, or an exception it lets through (kind "raise").
DemoResult(kind, value, msg, calls) ==
  [kind |-> kind, value |-> value, msg |-> msg, calls |-> calls]

\* SimpleMCPDemo.predict: no check of the object, no try
DemoPredict(models, name, x) ==
  LET model == Bound(models, name)
      call == Invocation("model", name, model, "predict", x)
  IN CASE model = "absent" ->
            DemoResult("error", NoValue, NotFoundMsg("Model", name), <<>>)
       [] model = "predicts" ->
            DemoResult("value", ModelOut(model, x), <<>>, <<call>>)
       [] model = "raises" -> DemoResult("raise", NoValue, Raised(model), <<call>>)
       [] OTHER -> DemoResult("raise", NoValue, <<"AttributeError">>, <<>>)

\* SimpleMCPDemo.execute_handler
DemoExecute(handlers, name, p) ==
  LET handler == Bound(handlers, name)
      call == Invocation("handler", name, handler, "__call__", p)
  IN CASE handler = "absent" ->
            DemoResult("error", NoValue, NotFoundMsg("Handler", name), <<>>)
       [] handler = "raises" ->
            DemoResult("raise", NoValue, Raised(handler), <<call>>)
       [] OTHER -> DemoResult("value", HandlerOut(handler, p), <<>>, <<call>>)

\* SimpleMCPDemo.list_models
DemoListModels(models) ==
  DemoResult("value",
             <<[n \in Registered(models) |-> [type |-> models[n]]]>>,
             <<>>, <<>>)

DemoCall(op, name, arg, r) ==
  [op |-> op, name |-> name, arg |-> arg, kind |-> r.kind, value |-> r.value,
   msg |-> r.msg, calls |-> r.calls]

DemoRegisterModel(name, model) ==
  /\ demoModels' = [demoModels EXCEPT ![name] = model]
  /\ UNCHANGED <<host, demoHandlers, demoLast>>

DemoRegisterHandler(name, handler) ==
  /\ demoHandlers' = [demoHandlers EXCEPT ![name] = handler]
  /\ UNCHANGED <<host, demoModels, demoLast>>

DemoCallPredict(name, x) ==
  /\ demoLast' = DemoCall("predict", name, x, DemoPredict(demoModels, name, x))
  /\ UNCHANGED <<host, demoModels, demoHandlers>>

DemoCallExecute(name, p) ==
  /\ demoLast' = DemoCall("execute_handler", name, p,
                          DemoExecute(demoHandlers, name, p))
  /\ UNCHANGED <<host, demoModels, demoHandlers>>

DemoCallListModels ==
  /\ demoLast' = DemoCall("list_models", "", "", DemoListModels(demoModels))
  /\ UNCHANGED <<host, demoModels, demoHandlers>>

(* ------------------------- SimpleMCPConnector ------------------------ *)

\* the values of `endpoint` and of `params` a caller passes
Endpoints == {"e1", "e2"}
SimMethods == Methods \cup {"test_method"}
SimParams == Inputs \cup Params \cup {EmptyParams}

\* What send_request hands back: the echo of the request with
\* 'status': 'simulated', or {'error': 'Not connected'}.
SimEcho(method, params) ==
  [kind |-> "echo", method |-> method, params |-> params,
   status |-> "simulated", error |-> ""]
SimError ==
  [kind |-> "error", method |-> "", params |-> "", status |-> "",
   error |-> "Not connected"]
SimNone == [SimError EXCEPT !.kind = "none", !.error = ""]

\* The record of a returned call: the operation, the value returned (ok for
\* connect, ret for send_request), the request passed, the flag when it was
\* called, and the operation called before it.
NoSimCall ==
  [op |-> "none", ok |-> FALSE, ret |-> SimNone, method |-> "", params |-> "",
   pre |-> FALSE, prev |-> "none"]

SimCall(op) ==
  [NoSimCall EXCEPT !.op = op, !.pre = simConnected, !.prev = simLast.op]

\* connect(): the flag is set and True returned
SimConnect ==
  /\ simConnected' = TRUE
  /\ simLast' = [SimCall("connect") EXCEPT !.ok = TRUE]
  /\ UNCHANGED simConf

\* disconnect()
SimDisconnect ==
  /\ simConnected' = FALSE
  /\ simLast' = SimCall("disconnect")
  /\ UNCHANGED simConf

\* mutant: the request is echoed whatever the flag
SimNotConnected_never == FALSE

\* `if not self._is_connected`
SimNotConnected == ~simConnected

\* send_request(method, params)
SimSendRequest(method, params) ==
  /\ simLast' = [SimCall("send_request") EXCEPT
                   !.ret = IF SimNotConnected THEN SimError
                                              ELSE SimEcho(method, params),
                   !.method = method, !.params = params]
  /\ UNCHANGED <<simConf, simConnected>>

\* the property is_connected is read
SimIsConnected ==
  /\ simLast' = [SimCall("is_connected") EXCEPT !.ok = simConnected]
  /\ UNCHANGED <<simConf, simConnected>>

(* ----------------------------- MCPClient ----------------------------- *)

\* What a client call hands back: None, a response dictionary (the answer
\* to the request described by method, name and arg, with the server's
\* payload when an MCPServer produced it), or an exception passing through.
Absent ==
  [kind |-> "none", method |-> "", name |-> "", arg |-> "",
   body |-> Resp(0, "none", "")]
Answer(method, name, arg, body) ==
  [kind |-> "dict", method |-> method, name |-> name, arg |-> arg, body |-> body]
Thrown == [Absent EXCEPT !.kind = "raise"]

\* The record of a returned client call: the operation, the value (ret) or
\* boolean (ok) returned, the results list of a batch with the inputs
\* predict was called with, whether next() ended in StopIteration, the
\* send_request calls made on the connector, whether the client call
\* before it was connect(), the connector's is_connected as the call read
\* it, and whether the call caught an exception of the connector.
NoCliCall ==
  [op |-> "none", ret |-> Absent, ok |-> FALSE, results |-> <<>>,
   asked |-> <<>>, stop |-> FALSE, sends |-> 0, afterConnect |-> FALSE,
   connFlag |-> FALSE, caught |-> FALSE]

CliCall(op) ==
  [NoCliCall EXCEPT !.op = op, !.afterConnect = (cliLast.op = "connect")]

ConnName ==
  CASE connType = "http" -> "http"
    [] connType = "websocket" -> "ws"
    [] OTHER -> "base"

\* What HTTPConnector's try block gives against an MCPServer: one POST with
\* the session's headers; raise_for_status makes an exception of every
\* status from 400 on, caught and turned into None; else the JSON payload.
HTTPPost(method, name, arg, body) ==
  LET resp == Dispatch(srvToken, srvModels, srvHandlers,
                       Request("POST", method, name, peerAuth, body))
  IN IF resp.status >= 400 THEN Absent ELSE Answer(method, name, arg, resp)

\* mutant: the exception raised in the try block leaves send_request
WSSendRequest_uncaught(method, name, arg) ==
  IF WSNotConnected
    THEN [ret |-> Absent, exch |-> 0]
    ELSE IF WSRequestBuilt /\ WSCanTransmit
           THEN [ret |-> Answer(method, name, arg, Resp(0, "none", "")), exch |-> 1]
           ELSE [ret |-> Thrown, exch |-> 0]

\* WebSocketConnector.send_request as its caller sees it, from the guard to
\* the return: {'status': 'sent', ...} after a frame was written, None when
\* the guard fails or the try block raises.
WSSendRequest(method, name, arg) ==
  IF WSNotConnected
    THEN [ret |-> Absent, exch |-> 0]
    ELSE IF WSRequestBuilt /\ WSCanTransmit
           THEN [ret |-> Answer(method, name, arg, Resp(0, "none", "")), exch |-> 1]
           ELSE [ret |-> Absent, exch |-> 0]

\* The possible outcomes of self.connector.send_request(method, params):
\* the value returned and the transport exchanges made. A connector put in
\* place of the built one (connType "base") keeps to the contract of
\* MCPConnector.send_request: the response to this request, or None.
SendOutcomes(method, name, arg, body) ==
  CASE connType = "http" ->
         {IF HTTPNotConnected(httpSession, httpConnected)
            THEN [ret |-> Absent, exch |-> 0]
            ELSE [ret |-> HTTPPost(method, name, arg, body), exch |-> 1]}
    [] connType = "websocket" -> {WSSendRequest(method, name, arg)}
    [] OTHER ->
         {[ret |-> Absent, exch |-> 0],
          [ret |-> Answer(method, name, arg, Resp(0, "none", "")), exch |-> 1]}

\* A client request: `if not self._connected: return None`, else the
\* connector's send_request; sent tells whether the connector was called.
Outcomes(method, name, arg, body) ==
  IF ~cliConnected
    THEN {[ret |-> Absent, exch |-> 0, sent |-> FALSE]}
    ELSE {[ret |-> r.ret, exch |-> r.exch, sent |-> TRUE] :
            r \in SendOutcomes(method, name, arg, body)}

\* The connector is not called.
ConnUntouched == UNCHANGED <<connConf, httpVars, wsVars, last>>

\* mutant: a send_request that got no response marks the connector as not
\* connected
Effect_dropsflag(o) ==
  IF ~o.sent
    THEN ConnUntouched
    ELSE /\ IF connType = "http"
              THEN /\ httpPosts + o.exch <= MaxExchanges
                   /\ httpPosts' = httpPosts + o.exch
                   /\ httpConnected' = (httpConnected /\ o.ret.kind = "dict")
                   /\ UNCHANGED <<httpLib, httpAuth, httpSession, httpMade, wsVars>>
              ELSE IF connType = "websocket"
                     THEN /\ wsFrames + o.exch <= MaxExchanges
                          /\ wsFrames' = wsFrames + o.exch
                          /\ wsConnected' = (wsConnected /\ o.ret.kind = "dict")
                          /\ UNCHANGED <<httpVars, wsLib, wsAuth, wsTimeout, wsHandle,
                                         wsMade, sock, wsPc, wsPolls,
                                         wsPre, wsIntr, sendPc, sendPre, sendShut>>
                     ELSE UNCHANGED <<httpVars, wsVars>>
         /\ last' = [Call(ConnName, "send_request") EXCEPT
                       !.ret = IF o.ret.kind = "dict"
                                 THEN DictResp("absent") ELSE NoneResp,
                       !.exch = o.exch]
         /\ UNCHANGED connConf

\* What outcome o leaves in the connector: the exchanges counted and the
\* record of the call; send_request assigns neither the flag nor the handle.
Effect(o) ==
  IF ~o.sent
    THEN ConnUntouched
    ELSE /\ IF connType = "http"
              THEN /\ httpPosts + o.exch <= MaxExchanges
                   /\ httpPosts' = httpPosts + o.exch
                   /\ UNCHANGED <<httpLib, httpAuth, httpSession, httpMade, httpConnected,
                                  wsVars>>
              ELSE IF connType = "websocket"
                     THEN /\ wsFrames + o.exch <= MaxExchanges
                          /\ wsFrames' = wsFrames + o.exch
                          /\ UNCHANGED <<httpVars, wsLib, wsAuth, wsTimeout, wsHandle,
                                         wsMade, wsConnected, sock, wsPc, wsPolls,
                                         wsPre, wsIntr, sendPc, sendPre, sendShut>>
                     ELSE UNCHANGED <<httpVars, wsVars>>
         /\ last' = [Call(ConnName, "send_request") EXCEPT
                       !.ret = IF o.ret.kind = "dict"
                                 THEN DictResp("absent") ELSE NoneResp,
                       !.exch = o.exch]
         /\ UNCHANGED connConf

\* list_models, predict, execute_handler
CliRequest(op, method, name, arg, body) ==
  /\ caller = "calls"
  /\ cliPc = "idle"
  /\ \E o \in Outcomes(method, name, arg, body) :
       /\ Effect(o)
       /\ cliLast' = [CliCall(op) EXCEPT
                        !.ret = o.ret, !.sends = IF o.sent THEN 1 ELSE 0]
  /\ UNCHANGED <<cliConnected, caller, cliIn, cliPc, cliPos, cliRes, cliAsked,
                 genState, genPos, genLog, genOut, srvVars, demoVars>>

CliListModels == CliRequest("list_models", "models", "", "", Body("empty", ""))

CliPredict ==
  \E name \in Names, x \in Inputs :
    CliRequest("predict", "predict", name, x, Body("input", x))

CliExecuteHandler ==
  \E name \in Names, p \in Params :
    CliRequest("execute_handler", "execute", name, p, Body("params", p))

\* MCPClient.health_check: False when the flag is not set, else the
\* connector's health_check
CliHealthCheck ==
  /\ caller = "calls"
  /\ cliPc = "idle"
  /\ IF ~cliConnected
       THEN /\ cliLast' = CliCall("health_check")
            /\ ConnUntouched
       ELSE CASE connType = "http" ->
                   /\ HTTPHealthCheck
                   /\ last'.env = "healthy"
                   /\ cliLast' = [CliCall("health_check") EXCEPT
                                    !.ok = last'.ok, !.sends = 1]
              [] connType = "websocket" ->
                   LET r == WSSendRequest("health_check", "", "")
                       o == [ret |-> r.ret, exch |-> r.exch, sent |-> TRUE]
                   IN /\ Effect(o)
                      /\ cliLast' = [CliCall("health_check") EXCEPT
                                       !.ok = (r.ret.kind = "dict"
                                               /\ HealthCheck(SentResp)),
                                       !.sends = 1]
              [] OTHER ->
                   \E resp \in Responses :
                     /\ cliLast' = [CliCall("health_check") EXCEPT
                                      !.ok = HealthCheck(resp), !.sends = 1]
                     /\ ConnUntouched
  /\ UNCHANGED <<cliConnected, caller, cliIn, cliPc, cliPos, cliRes, cliAsked,
                 genState, genPos, genLog, genOut, srvVars, demoVars>>

\* mutant: the client takes itself for connected once connect() was called
CliConnectReturn_optimist(ok) ==
  /\ cliConnected' = TRUE
  /\ cliLast' = [CliCall("connect") EXCEPT !.ok = ok]

\* The return of MCPClient.connect with the connector's connect() result in
\* `last`: the flag is assigned and returned.
CliConnectReturn(ok) ==
  /\ cliConnected' = ok
  /\ cliLast' = [CliCall("connect") EXCEPT !.ok = ok]

\* MCPClient.connect; on a WebSocketConnector it goes on in CliConnectStep
CliConnect ==
  /\ cliPc = "idle"
  /\ CASE connType = "http" ->
            /\ httpMade < MaxConnects
            /\ HTTPConnect
            /\ last'.env = "healthy"
            /\ CliConnectReturn(last'.ok)
            /\ UNCHANGED cliPc
       [] connType = "websocket" ->
            /\ wsMade < MaxConnects
            /\ WSConnectStart
            /\ IF wsPc' = "idle"
                 THEN CliConnectReturn(last'.ok) /\ UNCHANGED cliPc
                 ELSE cliPc' = "connect" /\ UNCHANGED <<cliConnected, cliLast>>
       [] OTHER ->
            \* the substituted connector returns a boolean or raises; the
            \* except branch returns False and assigns nothing
            /\ \E out \in {"true", "false", "raise"} :
                 /\ cliConnected' = IF out = "raise" THEN cliConnected
                                                     ELSE out = "true"
                 /\ cliLast' = [CliCall("connect") EXCEPT
                                  !.ok = (out = "true"),
                                  !.caught = (out = "raise")]
            /\ ConnUntouched
            /\ UNCHANGED <<cliPc, srvVars>>
  /\ UNCHANGED <<caller, cliIn, cliPos, cliRes, cliAsked, genState, genPos,
                 genLog, genOut, demoVars>>

\* the wait loop of the WebSocket connect() the client called
CliConnectStep ==
  /\ cliPc = "connect"
  /\ WSConnectPoll \/ WSConnectTimeout
  /\ IF wsPc' = "idle"
       THEN CliConnectReturn(last'.ok) /\ cliPc' = "idle"
       ELSE UNCHANGED <<cliConnected, cliPc, cliLast>>
  /\ UNCHANGED <<caller, cliIn, cliPos, cliRes, cliAsked, genState, genPos,
                 genLog, genOut, demoVars>>

\* MCPClient.disconnect
CliDisconnect ==
  /\ CASE connType = "http" -> HTTPDisconnect
       [] connType = "websocket" -> WSDisconnect
       [] OTHER -> ConnUntouched /\ UNCHANGED srvVars
  /\ cliConnected' = FALSE
  /\ cliLast' = CliCall("disconnect")
  /\ UNCHANGED <<caller, cliIn, cliPc, cliPos, cliRes, cliAsked, genState,
                 genPos, genLog, genOut, demoVars>>

\* mutant: __exit__ disconnects only when the block ended without exception
ExitDisconnects_onlyclean(raised) == ~raised

\* __exit__ calls disconnect() whatever exc_type is
ExitDisconnects(raised) == TRUE

\* `with client:` is entered: __enter__ calls connect()
CliEnter ==
  /\ caller = "with"
  /\ withPc \in {"out", "done", "raised"}
  /\ CliConnect
  /\ withPc' = IF cliPc' = "connect" THEN "entering" ELSE "body"

\* the wait loop of the WebSocket connect() called by __enter__; when it
\* returns, whatever it returns, the body is entered
CliEnterStep ==
  /\ caller = "with"
  /\ withPc = "entering"
  /\ CliConnectStep
  /\ withPc' = IF cliPc' = "idle" THEN "body" ELSE "entering"

\* the body ends, normally or by an exception: __exit__ calls disconnect()
\* and returns None, so the exception goes on
CliExit ==
  \E raised \in BOOLEAN :
    /\ caller = "with"
    /\ withPc = "body"
    /\ IF ExitDisconnects(raised)
         THEN CliDisconnect
         ELSE /\ ConnUntouched
              /\ UNCHANGED <<cliConnected, caller, cliIn, cliPc, cliPos, cliRes,
                             cliAsked, genState, genPos, genLog, genOut, cliLast,
                             srvVars, demoVars>>
    /\ withPc' = IF raised THEN "raised" ELSE "done"

\* MCPConnector.is_connected of the client's connector; a connector put in
\* place of the built one reports either
ConnectorFlags ==
  CASE connType = "http" -> {httpConnected}
    [] connType = "websocket" -> {wsConnected}
    [] OTHER -> BOOLEAN

\* mutant: the property trusts the client's own flag
IsConnected_flagonly(flag, connected) == flag

\* `self._connected and self.connector.is_connected`
IsConnected(flag, connected) == flag /\ connected

\* the property MCPClient.is_connected is read
CliIsConnected ==
  /\ caller = "calls"
  /\ \E c \in ConnectorFlags :
       cliLast' = [CliCall("is_connected") EXCEPT
                     !.ok = IsConnected(cliConnected, c), !.connFlag = c]
  /\ ConnUntouched
  /\ UNCHANGED <<cliConnected, caller, cliIn, cliPc, cliPos, cliRes, cliAsked,
                 genState, genPos, genLog, genOut, srvVars, demoVars>>

\* mutant: a failed prediction leaves no element in the list
BatchAppend_skipsnone(results, r) ==
  IF r.kind = "none" THEN results ELSE Append(results, r)

\* `results.append(result)`
BatchAppend(results, r) == Append(results, r)

\* mutant: every result is yielded
StreamYields_all(r) == TRUE

\* `if result is not None`
StreamYields(r) == r.kind # "none"

\* The loop variables of batch_predict and the call in progress are dropped.
BatchOver ==
  /\ cliPc' = "idle"
  /\ cliPos' = 0
  /\ cliRes' = <<>>
  /\ cliAsked' = <<>>

\* batch_predict is called: `results = []`
CliBatchPredict ==
  /\ caller = "batch"
  /\ cliPc = "idle"
  /\ cliPc' = "batch"
  /\ cliPos' = 0
  /\ cliRes' = <<>>
  /\ cliAsked' = <<>>
  /\ ConnUntouched
  /\ UNCHANGED <<cliConnected, caller, cliIn, genState, genPos, genLog, genOut,
                 cliLast, srvVars, demoVars>>

\* one iteration of the loop of batch_predict: predict, append; an
\* exception out of predict ends the call
CliBatchStep ==
  /\ cliPc = "batch"
  /\ cliPos < Len(cliIn)
  /\ LET x == cliIn[cliPos + 1]
     IN \E o \in Outcomes("predict", "alpha", x, Body("input", x)) :
          /\ Effect(o)
          /\ IF o.ret.kind = "raise"
               THEN /\ BatchOver
                    /\ cliLast' = [CliCall("batch_predict") EXCEPT
                                     !.ret = Thrown,
                                     !.asked = Append(cliAsked, x)]
               ELSE /\ cliPos' = cliPos + 1
                    /\ cliRes' = BatchAppend(cliRes, o.ret)
                    /\ cliAsked' = Append(cliAsked, x)
                    /\ UNCHANGED <<cliPc, cliLast>>
  /\ UNCHANGED <<cliConnected, caller, cliIn, genState, genPos, genLog, genOut,
                 srvVars, demoVars>>

\* `return results`
CliBatchReturn ==
  /\ cliPc = "batch"
  /\ cliPos >= Len(cliIn)
  /\ BatchOver
  /\ cliLast' = [CliCall("batch_predict") EXCEPT
                   !.results = cliRes, !.asked = cliAsked]
  /\ ConnUntouched
  /\ UNCHANGED <<cliConnected, caller, cliIn, genState, genPos, genLog, genOut,
                 srvVars, demoVars>>

\* stream_predictions is called: a generator is made, none of its body runs
CliStreamPredictions ==
  /\ caller = "stream"
  /\ cliPc = "idle"
  /\ genState = "none"
  /\ genState' = "created"
  /\ cliLast' = CliCall("stream_predictions")
  /\ ConnUntouched
  /\ UNCHANGED <<cliConnected, caller, cliIn, cliPc, cliPos, cliRes, cliAsked,
                 genPos, genLog, genOut, srvVars, demoVars>>

\* the consumer asks the generator for an element: next()
CliNext ==
  /\ cliPc = "idle"
  /\ genState \in {"created", "suspended", "done"}
  /\ IF genState = "done"
       THEN /\ cliLast' = [CliCall("next") EXCEPT !.stop = TRUE]
            /\ UNCHANGED <<genState, cliPc>>
       ELSE /\ genState' = "running"
            /\ cliPc' = "next"
            /\ UNCHANGED cliLast
  /\ ConnUntouched
  /\ UNCHANGED <<cliConnected, caller, cliIn, cliPos, cliRes, cliAsked, genPos,
                 genLog, genOut, srvVars, demoVars>>

\* the generator runs: it takes the next input and predicts, yields a
\* result that is not None and else goes round the loop; with no input left
\* it finishes
GenStep ==
  /\ cliPc = "next"
  /\ genState = "running"
  /\ IF genPos < Len(cliIn)
       THEN LET x == cliIn[genPos + 1]
            IN \E o \in Outcomes("predict", "alpha", x, Body("input", x)) :
                 /\ Effect(o)
                 /\ genPos' = genPos + 1
                 /\ genLog' = Append(genLog, o.ret)
                 /\ CASE o.ret.kind = "raise" ->
                           /\ genState' = "done"
                           /\ cliPc' = "idle"
                           /\ cliLast' = [CliCall("next") EXCEPT !.ret = Thrown]
                           /\ UNCHANGED genOut
                      [] o.ret.kind # "raise" /\ StreamYields(o.ret) ->
                           /\ genState' = "suspended"
                           /\ cliPc' = "idle"
                           /\ genOut' = Append(genOut, o.ret)
                           /\ cliLast' = [CliCall("next") EXCEPT
                                            !.ret = o.ret,
                                            !.sends = IF o.sent THEN 1 ELSE 0]
                      [] OTHER -> UNCHANGED <<genState, cliPc, genOut, cliLast>>
       ELSE /\ genState' = "done"
            /\ cliPc' = "idle"
            /\ cliLast' = [CliCall("next") EXCEPT !.stop = TRUE]
            /\ ConnUntouched
            /\ UNCHANGED <<genPos, genLog, genOut>>
  /\ UNCHANGED <<cliConnected, caller, cliIn, cliPos, cliRes, cliAsked, srvVars,
                 demoVars>>

(* ------------------------------- Spec -------------------------------- *)

ConnInit ==
  /\ connType \in {"http", "websocket", "base"}
  /\ connToken = <<>>
  /\ httpLib \in BOOLEAN
  /\ httpSession = 0
  /\ httpAuth = NoHeader
  /\ httpMade = 0
  /\ httpConnected = FALSE
  /\ httpPosts = 0
  /\ wsLib \in BOOLEAN
  /\ wsTimeout \in 0..MaxTimeout
  /\ wsHandle = 0
  /\ wsAuth = [s \in Sockets |-> NoHeader]
  /\ wsMade = 0
  /\ wsConnected = FALSE
  /\ sock = [s \in Sockets |-> "unborn"]
  /\ wsFrames = 0
  /\ wsPc = "idle"
  /\ wsPolls = 0
  /\ wsPre = FALSE
  /\ wsIntr = FALSE
  /\ sendPc = "idle"
  /\ sendPre = FALSE
  /\ sendShut = FALSE
  /\ last = NoCall

SrvIdle ==
  /\ srvToken = <<>>
  /\ srvModels = [n \in Names |-> "absent"]
  /\ srvHandlers = [n \in Names |-> "absent"]
  /\ srvLast = NoRequest
  /\ srvRunning = FALSE
  /\ srvThreads = <<>>
  /\ srvCall = NoSrvCall
  /\ peerAuth = NoHeader
  /\ SrvQuiet

\* No SimpleMCPDemo call has been made, no MCPClient call either.
NoDemoCall ==
  [op |-> "none", name |-> "", arg |-> "", kind |-> "none", value |-> NoValue,
   msg |-> <<>>, calls |-> <<>>]

\* A SimpleMCPConnector as constructed, on which nothing was called.
SimIdle ==
  /\ simConf = [endpoint |-> "e1", token |-> <<>>]
  /\ simConnected = FALSE
  /\ simLast = NoSimCall

DemoIdle ==
  /\ host = "MCPServer"
  /\ demoModels = [n \in Names |-> "absent"]
  /\ demoHandlers = [n \in Names |-> "absent"]
  /\ demoLast = NoDemoCall
  /\ SimIdle

CliIdle ==
  /\ cliConnected = FALSE
  /\ caller = "calls"
  /\ cliIn = <<>>
  /\ cliPc = "idle"
  /\ cliPos = 0
  /\ cliRes = <<>>
  /\ cliAsked = <<>>
  /\ genState = "none"
  /\ genPos = 0
  /\ genLog = <<>>
  /\ genOut = <<>>
  /\ cliLast = NoCliCall
  /\ withPc = "out"

Init == ConnInit /\ SrvIdle /\ DemoIdle /\ CliIdle

Next ==
  \/ HTTPConnect /\ UNCHANGED <<demoVars, cliVars>>
  \/ HTTPDisconnect /\ UNCHANGED <<demoVars, cliVars>>
  \/ HTTPSend /\ UNCHANGED <<demoVars, cliVars>>
  \/ HTTPHealthCheck /\ UNCHANGED <<demoVars, cliVars>>
  \/ BaseHealthCheck /\ UNCHANGED <<demoVars, cliVars>>
  \/ WSConnectStart /\ UNCHANGED <<demoVars, cliVars>>
  \/ WSConnectPoll /\ UNCHANGED <<demoVars, cliVars>>
  \/ WSConnectTimeout /\ UNCHANGED <<demoVars, cliVars>>
  \/ WSDisconnect /\ UNCHANGED <<demoVars, cliVars>>
  \/ WSSendStart /\ UNCHANGED <<demoVars, cliVars>>
  \/ WSSendFinish /\ UNCHANGED <<demoVars, cliVars>>
  \/ \E s \in Sockets : OnOpen(s) /\ UNCHANGED <<demoVars, cliVars>>
  \/ \E s \in Sockets : OnError(s) /\ UNCHANGED <<demoVars, cliVars>>
  \/ \E s \in Sockets : OnClose(s) /\ UNCHANGED <<demoVars, cliVars>>

Spec == Init /\ [][Next]_vars

\* The threads of the program keep running: a connect() in its wait loop
\* and a send_request() past its guard take their next step.
FairSpec ==
  /\ Spec
  /\ WF_vars(WSConnectPoll /\ UNCHANGED <<demoVars, cliVars>>)
  /\ WF_vars(WSConnectTimeout /\ UNCHANGED <<demoVars, cliVars>>)
  /\ WF_vars(WSSendFinish /\ UNCHANGED <<demoVars, cliVars>>)

\* The credentials a server is configured with; <<>> is None (and '').
Credentials == {<<>>, <<"secret">>, <<"Basic">>}

AuthHeaders == {NoHeader} \cup {Header(s) : s \in Strings(MaxHeaderLen)}

AuthInit ==
  /\ connType = "base"
  /\ connToken = <<>>
  /\ httpLib = FALSE
  /\ httpSession = 0
  /\ httpAuth = NoHeader
  /\ httpMade = 0
  /\ httpConnected = FALSE
  /\ httpPosts = 0
  /\ wsLib = FALSE
  /\ wsTimeout = 0
  /\ wsHandle = 0
  /\ wsAuth = [s \in Sockets |-> NoHeader]
  /\ wsMade = 0
  /\ wsConnected = FALSE
  /\ sock = [s \in Sockets |-> "unborn"]
  /\ wsFrames = 0
  /\ wsPc = "idle"
  /\ wsPolls = 0
  /\ wsPre = FALSE
  /\ wsIntr = FALSE
  /\ sendPc = "idle"
  /\ sendPre = FALSE
  /\ sendShut = FALSE
  /\ last = NoCall
  /\ srvToken \in Credentials
  /\ srvModels = [n \in Names |-> "absent"]
  /\ srvHandlers = [n \in Names |-> "absent"]
  /\ srvLast = NoRequest
  /\ srvRunning = FALSE
  /\ srvThreads = <<>>
  /\ srvCall = NoSrvCall
  /\ SrvQuiet
  /\ peerAuth \in AuthHeaders
  /\ DemoIdle
  /\ CliIdle

AuthRegisterModel == RegisterModel("alpha", "predicts")
AuthRegisterHandler == RegisterHandler("alpha", "returns")
AuthServe ==
  \E verb \in Verbs, route \in Routes, name \in Names :
    /\ route \in {"health_check", "models"} => name = "alpha"
    /\ Serve(Request(verb, route, name, peerAuth, Body("input", "x1")))

AuthNext ==
  \/ AuthRegisterModel /\ UNCHANGED <<demoVars, cliVars>>
  \/ AuthRegisterHandler /\ UNCHANGED <<demoVars, cliVars>>
  \/ AuthServe /\ UNCHANGED <<demoVars, cliVars>>

AuthSpec == AuthInit /\ [][AuthNext]_vars

\* Connectors as constructed, with nothing called on them.
ConnIdle ==
  /\ connType = "base"
  /\ connToken = <<>>
  /\ httpLib = FALSE
  /\ httpSession = 0
  /\ httpAuth = NoHeader
  /\ httpMade = 0
  /\ httpConnected = FALSE
  /\ httpPosts = 0
  /\ wsLib = FALSE
  /\ wsTimeout = 0
  /\ wsHandle = 0
  /\ wsAuth = [s \in Sockets |-> NoHeader]
  /\ wsMade = 0
  /\ wsConnected = FALSE
  /\ sock = [s \in Sockets |-> "unborn"]
  /\ wsFrames = 0
  /\ wsPc = "idle"
  /\ wsPolls = 0
  /\ wsPre = FALSE
  /\ wsIntr = FALSE
  /\ sendPc = "idle"
  /\ sendPre = FALSE
  /\ sendShut = FALSE
  /\ last = NoCall

\* A registry owner: an MCPServer with or without a credential whose peer
\* does or does not send it, as constructed or started and serving, or a
\* SimpleMCPDemo as constructed.
SrvInit ==
  /\ ConnIdle
  /\ CliIdle
  /\ host \in {"MCPServer", "SimpleMCPDemo"}
  /\ srvToken \in {<<>>, <<"secret">>}
  /\ peerAuth \in {NoHeader, Header(<<"Bearer", " ", "secret">>)}
  /\ (srvToken = <<>> \/ host = "SimpleMCPDemo") => peerAuth = NoHeader
  /\ host = "SimpleMCPDemo" => srvToken = <<>>
  /\ srvModels = [n \in Names |-> "absent"]
  /\ srvHandlers = [n \in Names |-> "absent"]
  /\ srvLast = NoRequest
  /\ srvRunning \in BOOLEAN
  /\ host = "SimpleMCPDemo" => srvRunning = FALSE
  /\ srvThreads = IF srvRunning THEN <<Thread("serving", TRUE)>> ELSE <<>>
  /\ srvCall = IF srvRunning THEN [op |-> "start", pre |-> FALSE, launched |-> 1]
                             ELSE NoSrvCall
  /\ SrvQuiet
  /\ demoModels = [n \in Names |-> "absent"]
  /\ demoHandlers = [n \in Names |-> "absent"]
  /\ demoLast = NoDemoCall
  /\ SimIdle

\* The requests a peer sends: any route with its own verb, and the list of
\* models also by POST, each with any body.
SrvRequests ==
  {Request(verb, route, name, peerAuth, body) :
     verb \in Verbs, route \in Routes, name \in Names, body \in Bodies}

Wellformed(req) ==
  /\ req.route \in {"predict", "execute"} => req.verb = "POST"
  /\ req.route \in {"health_check", "models"} =>
       req.name = "alpha" /\ req.body = Body("empty", "")
  /\ req.route = "health_check" => req.verb = "GET"
  /\ req.route = "execute" => req.body.kind # "input"

SrvRegisterModel ==
  \E name \in Names, model \in ModelKinds :
    /\ host = "MCPServer"
    /\ RegisterModel(name, model)
    /\ UNCHANGED <<demoVars, cliVars>>

SrvRegisterHandler ==
  \E name \in Names, handler \in HandlerKinds :
    /\ host = "MCPServer"
    /\ RegisterHandler(name, handler)
    /\ UNCHANGED <<demoVars, cliVars>>

SrvServe ==
  \E req \in SrvRequests :
    /\ host = "MCPServer"
    /\ Wellformed(req)
    /\ Serve(req)
    /\ UNCHANGED <<demoVars, cliVars>>

SrvStart ==
  \E threaded \in BOOLEAN :
    host = "MCPServer" /\ Start(threaded) /\ UNCHANGED <<demoVars, cliVars>>
SrvStop == host = "MCPServer" /\ Stop /\ UNCHANGED <<demoVars, cliVars>>

DemoNext ==
  /\ host = "SimpleMCPDemo"
  /\ \/ \E name \in Names, model \in ModelKinds : DemoRegisterModel(name, model)
     \/ \E name \in Names, handler \in HandlerKinds :
          DemoRegisterHandler(name, handler)
     \/ \E name \in Names, x \in Inputs : DemoCallPredict(name, x)
     \/ \E name \in Names, p \in Params : DemoCallExecute(name, p)
     \/ DemoCallListModels
  /\ UNCHANGED <<connConf, httpVars, wsVars, last, srvVars, cliVars, simVars>>

SrvNext ==
  \/ SrvRegisterModel
  \/ SrvRegisterHandler
  \/ SrvServe
  \/ DemoNext

SrvSpec == SrvInit /\ [][SrvNext]_vars

\* An MCPServer as constructed, with one model and one handler registered,
\* with or without a credential, which its peer does not send.
RunInit ==
  /\ ConnIdle
  /\ CliIdle
  /\ DemoIdle
  /\ srvToken \in {<<>>, <<"secret">>}
  /\ peerAuth = NoHeader
  /\ srvModels = [n \in Names |-> IF n = "alpha" THEN "predicts" ELSE "absent"]
  /\ srvHandlers = [n \in Names |-> IF n = "alpha" THEN "returns" ELSE "absent"]
  /\ srvLast = NoRequest
  /\ srvRunning = FALSE
  /\ srvThreads = <<>>
  /\ srvCall = NoSrvCall
  /\ SrvQuiet

\* The requests a peer sends to host:port.
RunRequests ==
  {Request("GET", "health_check", "alpha", peerAuth, Body("empty", "")),
   Request("GET", "models", "alpha", peerAuth, Body("empty", "")),
   Request("POST", "predict", "alpha", peerAuth, Body("input", "x1")),
   Request("POST", "predict", "beta", peerAuth, Body("malformed", "")),
   Request("POST", "execute", "beta", peerAuth, Body("params", "p1"))}

\* the owner registers a model or a handler that raises, under a new name
\* or in place of the one registered
RunRegister ==
  \E name \in Names :
    /\ RegisterModel(name, "raises") \/ RegisterHandler(name, "raises")
    /\ UNCHANGED <<demoVars, cliVars>>

\* a request sent to host:port is answered by the thread bound to it
RunServe ==
  \E req \in RunRequests :
    /\ Accepting
    /\ Serve(req)
    /\ UNCHANGED <<demoVars, cliVars>>

\* a serving thread binds, fails to bind, or returns
RunThread ==
  \E i \in 1..Len(srvThreads) :
    /\ ThreadBind(i) \/ ThreadFail(i) \/ ThreadReturn(i)
    /\ UNCHANGED <<demoVars, cliVars>>

RunNext ==
  \/ RunRegister
  \/ SrvStart
  \/ SrvStop
  \/ RunThread
  \/ RunServe

RunSpec == RunInit /\ [][RunNext]_vars

\* An MCPServer without a credential, as constructed or started and
\* serving, with any models registered; its owner's threads register
\* models, call start() and stop() while handler threads list the models.
RaceInit ==
  /\ ConnIdle
  /\ CliIdle
  /\ DemoIdle
  /\ srvToken = <<>>
  /\ peerAuth = NoHeader
  /\ srvModels \in [Names -> {"absent", "predicts"}]
  /\ srvHandlers = [n \in Names |-> "absent"]
  /\ srvLast = NoRequest
  /\ srvRunning \in BOOLEAN
  /\ srvThreads = IF srvRunning THEN <<Thread("serving", TRUE)>> ELSE <<>>
  /\ srvCall = IF srvRunning THEN [op |-> "start", pre |-> FALSE, launched |-> 1]
                             ELSE NoSrvCall
  /\ SrvQuiet

RaceNext ==
  \/ \E name \in Names, model \in {"predicts", "callable"} :
       RegisterModel(name, model) /\ UNCHANGED <<demoVars, cliVars>>
  \/ ListBegin /\ UNCHANGED <<demoVars, cliVars>>
  \/ ListStep /\ UNCHANGED <<demoVars, cliVars>>
  \/ \E c \in Callers : StartCheck(c) /\ UNCHANGED <<demoVars, cliVars>>
  \/ \E c \in Callers : StartLaunch(c) /\ UNCHANGED <<demoVars, cliVars>>
  \/ SrvStop
  \/ RunThread

RaceSpec == RaceInit /\ [][RaceNext]_vars

(* ------------------------------ claims ------------------------------- *)

IsSend == last.op = "send_request" /\ last.conn \in {"http", "ws"}
IsConnect == last.op = "connect" /\ last.conn \in {"http", "ws"}
IsDisconnect == last.op = "disconnect" /\ last.conn \in {"http", "ws"}

\* C1: a send_request of an HTTPConnector or WebSocketConnector called while
\* the connector is not Connected (flag false or no handle) returns None and
\* performs no transport exchange; one that returns a payload was called on
\* a Connected connector.
C1_SendNeedsConnected ==
  IsSend =>
    /\ ~last.pre => (last.ret = NoneResp /\ last.exch = 0)
    /\ last.ret # NoneResp => last.pre

\* C1 witness: an HTTP send_request on a connector that holds a session but is
\* not Connected came back None without a POST, the service being healthy.
C1_Witness ==
  /\ IsSend /\ last.conn = "http"
  /\ ~last.pre /\ last.handle # 0 /\ last.env = "healthy"
  /\ last.ret = NoneResp /\ last.exch = 0

\* C2: HTTPConnector.connect() on a Disconnected connector whose service is
\* reachable and healthy sends the probe, returns True and leaves the
\* connector Connected.
C2_HTTPConnectSucceeds ==
  (last.conn = "http" /\ last.op = "connect" /\ httpLib
     /\ ~last.pre /\ last.env = "healthy")
    => (last.ok /\ last.post /\ last.exch = 1)

\* C3: when connect() returns, its value equals is_connected at that moment
\* (so a False return leaves the connector not Connected), and the connector
\* is Connected only if the call's own probe or open signal succeeded.
C3_ConnectReturnIsState ==
  IsConnect =>
    /\ last.ok = last.post
    /\ last.post => last.sig

\* C4: connect() on a Connected connector, no disconnect() in between,
\* returns True, leaves it Connected, sends no probe and opens no second
\* transport.
C4_ConnectIdempotent ==
  (IsConnect /\ last.pre /\ ~last.intr)
    => (last.ok /\ last.post /\ last.exch = 0 /\ last.opened = 0)

\* C5: from any state, when disconnect() returns the connector is not
\* Connected and holds no transport handle; it can be called in every state,
\* also when already disconnected.
C5_DisconnectReleases ==
  /\ connType = "http" => ENABLED HTTPDisconnect
  /\ connType = "websocket" => ENABLED WSDisconnect
  /\ IsDisconnect => (~last.post /\ last.handle = 0)

\* C5 witness: a WebSocketConnector that was Connected has been disconnected.
C5_Witness ==
  /\ IsDisconnect /\ last.conn = "ws" /\ last.pre
  /\ ~wsConnected /\ wsHandle = 0

\* C6: a send_request on a Connected WebSocketConnector, with no shutdown
\* during the call, transmits exactly one frame and returns a reply payload.
C6_WSSendTransmits ==
  (last.conn = "ws" /\ last.op = "send_request" /\ last.pre /\ ~last.intr)
    => (last.exch = 1 /\ last.ret.kind = "dict")

\* C7: a WebSocket send_request in progress when disconnect() is called or
\* the socket closes or errors eventually returns a failure.
C7_PendingSendReturns ==
  (sendPc = "sending" /\ sendShut)
    ~> (sendPc = "idle" /\ last.conn = "ws" /\ last.op = "send_request"
          /\ last.intr /\ last.ret = NoneResp)

\* C7 witness: a send that was past its guard when the connection was shut
\* down has returned None.
C7_Witness ==
  /\ last.conn = "ws" /\ last.op = "send_request"
  /\ last.pre /\ last.intr /\ last.ret = NoneResp

\* C8: WebSocketConnector.connect() reads the flag at most `timeout` times
\* and can always take its next step; it returns True at the read that sees
\* the flag set, and False after `timeout` reads that all saw it clear
\* (none when timeout is 0, or when the import failed).
C8_ConnectPollsBounded ==
  /\ wsPolls <= wsTimeout
  /\ wsPc = "polling" => ENABLED (WSConnectPoll \/ WSConnectTimeout)
  /\ (last.conn = "ws" /\ last.op = "connect") =>
       /\ last.polls <= wsTimeout
       /\ last.ok => (last.polls >= 1 /\ last.post)
       /\ ~last.ok => (last.polls = IF wsLib THEN wsTimeout ELSE 0)

\* C8 witness: a connect() returned True at its second read of the flag.
C8_Witness ==
  last.conn = "ws" /\ last.op = "connect" /\ last.ok /\ last.polls = 2

\* C9: health_check() returns True exactly when send_request returned an
\* object whose status is 'healthy'; None, an error object, another shape
\* and a raised exception all give False.
C9_HealthCheckIffHealthy ==
  last.op = "health_check" =>
    (last.ok <=> (last.ret.kind = "dict" /\ last.ret.status = "healthy"
                    /\ ~last.ret.error))

\* C9 witness: a health_check whose send_request raised returned False, and
\* one over a healthy payload returns True.
C9_Witness ==
  /\ last.op = "health_check" /\ last.conn = "base"
  /\ last.ret = RaiseResp /\ ~last.ok
  /\ HealthCheck(DictResp("healthy"))

\* A request that reached the view of a route that authenticates.
Guarded ==
  /\ srvLast.req.route \in {"models", "predict", "execute"}
  /\ srvLast.req.verb \in Allowed(srvLast.req.route)

Passed == srvLast.resp.status # 401

\* C10 as claimed: with a credential configured, a request to models,
\* predict or execute passes authentication exactly when its header is
\* 'Bearer ' followed by the credential; health_check always succeeds and
\* without a credential every request passes.
C10_BearerExact ==
  /\ (Guarded /\ srvToken # <<>>) =>
       (Passed <=> srvLast.req.auth = Header(<<"Bearer", " ">> \o srvToken))
  /\ (Guarded /\ srvToken = <<>>) => Passed
  /\ srvLast.req.route = "health_check" => srvLast.resp.status = 200

\* C10 as amended: the scheme is compared after lower-casing, so the header
\* passes exactly when it is a word that lower-cases to 'bearer', one space,
\* and the credential, byte for byte; every other header of a served
\* request to models, predict or execute gives 401.
C10_BearerAnyCase ==
  /\ (Guarded /\ srvToken # <<>>) =>
       (Passed <=>
          \E scheme \in {"Bearer", "bearer"} :
            srvLast.req.auth = Header(<<scheme, " ">> \o srvToken))
  /\ (Guarded /\ srvToken = <<>>) => Passed
  /\ srvLast.req.route = "health_check" => srvLast.resp.status = 200

\* C10 witness: with the credential 'secret', a predict request carrying
\* 'Bearer secret' was answered with the prediction of a registered model.
C10_Witness ==
  /\ srvToken = <<"secret">>
  /\ srvLast.req.route = "predict"
  /\ srvLast.req.auth = Header(<<"Bearer", " ", "secret">>)
  /\ srvLast.resp.status = 200

\* mutant: the constructor opens a session
NewConnector_eager ==
  /\ httpSession = 1
  /\ httpAuth = NoHeader
  /\ httpMade = 1
  /\ httpConnected = FALSE
  /\ httpPosts = 0
  /\ wsHandle = 0
  /\ wsAuth = [s \in Sockets |-> NoHeader]
  /\ wsMade = 0
  /\ wsConnected = FALSE
  /\ sock = [s \in Sockets |-> "unborn"]
  /\ wsFrames = 0

\* MCPConnector.__init__ with HTTPConnector.__init__ and
\* WebSocketConnector.__init__: no connection, session or socket object, the
\* flag unset, nothing opened and nothing sent
NewConnector ==
  /\ httpSession = 0
  /\ httpAuth = NoHeader
  /\ httpMade = 0
  /\ httpConnected = FALSE
  /\ httpPosts = 0
  /\ wsHandle = 0
  /\ wsAuth = [s \in Sockets |-> NoHeader]
  /\ wsMade = 0
  /\ wsConnected = FALSE
  /\ sock = [s \in Sockets |-> "unborn"]
  /\ wsFrames = 0

\* The input lists a caller hands over.
InputLists == UNION {[1..n -> Inputs] : n \in 0..MaxBatch}

\* An MCPClient as constructed, with the connector it built or one put in
\* its place, and the MCPServer at its endpoint: running, with one model and
\* one handler registered. The header the client's connector attaches is
\* peerAuth: 'Bearer <auth_token>' of its token, or none.
CliInit ==
  /\ connType \in {"http", "websocket", "base"}
  /\ httpLib \in BOOLEAN
  /\ connType # "http" => httpLib = TRUE
  /\ NewConnector
  /\ wsLib \in BOOLEAN
  /\ connType # "websocket" => wsLib = TRUE
  /\ wsTimeout \in 1..MaxTimeout
  /\ connType # "websocket" => wsTimeout = 1
  /\ wsPc = "idle"
  /\ wsPolls = 0
  /\ wsPre = FALSE
  /\ wsIntr = FALSE
  /\ sendPc = "idle"
  /\ sendPre = FALSE
  /\ sendShut = FALSE
  /\ last = NoCall
  /\ srvToken \in {<<>>, <<"secret">>}
  /\ peerAuth \in {NoHeader, Header(<<"Bearer", " ", "secret">>)}
  /\ connType # "http" => (srvToken = <<>> /\ peerAuth = NoHeader)
  /\ connToken \in {<<>>, <<"secret">>}
  /\ peerAuth = BearerHeader(connToken)
  /\ srvModels = [n \in Names |-> IF n = "alpha" THEN "predicts" ELSE "absent"]
  /\ srvHandlers = [n \in Names |-> IF n = "alpha" THEN "returns" ELSE "absent"]
  /\ srvLast = NoRequest
  /\ srvRunning = TRUE
  /\ srvThreads = <<Thread("serving", TRUE)>>
  /\ srvCall = [op |-> "start", pre |-> FALSE, launched |-> 1]
  /\ SrvQuiet
  /\ DemoIdle
  /\ cliConnected = FALSE
  /\ caller \in {"calls", "batch", "stream", "with"}
  /\ cliIn \in InputLists
  /\ caller \in {"calls", "with"} => cliIn = <<>>
  /\ connType # "base" => \A k \in 1..Len(cliIn) : cliIn[k] = "x1"
  /\ cliPc = "idle"
  /\ cliPos = 0
  /\ cliRes = <<>>
  /\ cliAsked = <<>>
  /\ genState = "none"
  /\ genPos = 0
  /\ genLog = <<>>
  /\ genOut = <<>>
  /\ cliLast = NoCliCall
  /\ withPc = "out"

\* a callback of the WebSocket connector's background thread
CliCallback ==
  \E s \in Sockets :
    /\ OnOpen(s) \/ OnError(s) \/ OnClose(s)
    /\ UNCHANGED <<demoVars, cliVars>>

CliSteps ==
  \/ caller # "with" /\ CliConnect /\ UNCHANGED withPc
  \/ caller # "with" /\ CliConnectStep /\ UNCHANGED withPc
  \/ caller # "with" /\ CliDisconnect /\ UNCHANGED withPc
  \/ CliIsConnected /\ UNCHANGED withPc
  \/ CliHealthCheck /\ UNCHANGED withPc
  \/ CliListModels /\ UNCHANGED withPc
  \/ CliPredict /\ UNCHANGED withPc
  \/ CliExecuteHandler /\ UNCHANGED withPc
  \/ CliBatchPredict /\ UNCHANGED withPc
  \/ CliBatchStep /\ UNCHANGED withPc
  \/ CliBatchReturn /\ UNCHANGED withPc
  \/ CliStreamPredictions /\ UNCHANGED withPc
  \/ CliNext /\ UNCHANGED withPc
  \/ GenStep /\ UNCHANGED withPc
  \/ CliEnter
  \/ CliEnterStep
  \/ CliExit
  \/ CliCallback

CliSpec == CliInit /\ [][CliSteps]_vars

\* Connectors as constructed with or without a token, the libraries
\* importable or not.
HdrInit ==
  /\ connType \in {"http", "websocket", "base"}
  /\ connToken \in {<<>>, <<"secret">>}
  /\ httpLib \in BOOLEAN
  /\ wsLib \in BOOLEAN
  /\ connType # "http" => httpLib
  /\ connType # "websocket" => wsLib
  /\ wsTimeout = 1
  /\ NewConnector
  /\ wsPc = "idle"
  /\ wsPolls = 0
  /\ wsPre = FALSE
  /\ wsIntr = FALSE
  /\ sendPc = "idle"
  /\ sendPre = FALSE
  /\ sendShut = FALSE
  /\ last = NoCall
  /\ SrvIdle
  /\ DemoIdle
  /\ CliIdle

HdrSpec == HdrInit /\ [][Next]_vars

\* A SimpleMCPConnector as constructed for an endpoint, with or without a
\* token.
SimInit ==
  /\ ConnIdle
  /\ SrvIdle
  /\ CliIdle
  /\ host = "SimpleMCPDemo"
  /\ demoModels = [n \in Names |-> "absent"]
  /\ demoHandlers = [n \in Names |-> "absent"]
  /\ demoLast = NoDemoCall
  /\ simConf \in [endpoint : Endpoints, token : {<<>>, <<"secret">>}]
  /\ simConnected = FALSE
  /\ simLast = NoSimCall

SimNext ==
  /\ \/ SimConnect
     \/ SimDisconnect
     \/ \E method \in SimMethods, params \in SimParams :
          SimSendRequest(method, params)
     \/ SimIsConnected
  /\ UNCHANGED <<connConf, httpVars, wsVars, last, srvVars, cliVars,
                 host, demoModels, demoHandlers, demoLast>>

SimSpec == SimInit /\ [][SimNext]_vars

(* ---------------------- claims on the dispatcher --------------------- *)

\* The step is the MCPServer answering the request now recorded in srvLast.
Answered ==
  /\ host = "MCPServer"
  /\ srvLast'.req.route \in Routes
  /\ Serve(srvLast'.req)

\* The request carries what the server's credential demands.
Authorized(req) ==
  srvToken = <<>> \/ req.auth = Header(<<"Bearer", " ">> \o srvToken)

\* C11: a predict or execute request that fails authentication is answered
\* Unauthorized whether or not its name is registered, never NotFound, and
\* nothing is invoked for it; NotFound, missing input, a result or an
\* execution error are answers to authenticated requests only.
C11_AuthBeforeLookup ==
  [][(Answered /\ srvLast'.req.route \in {"predict", "execute"}) =>
       LET req == srvLast'.req
           resp == srvLast'.resp
       IN IF Authorized(req)
            THEN resp.status \in {200, 400, 404, 500}
            ELSE resp.status = 401 /\ resp.calls = <<>>]_vars

\* C11 witness: a predict request without the credential, for a name that
\* is registered, was answered 401.
C11_Witness ==
  /\ srvLast.req.route = "predict"
  /\ ~Authorized(srvLast.req)
  /\ srvModels[srvLast.req.name] = "predicts"
  /\ srvLast.resp.status = 401

\* C12: an authorized predict request with input x for a name bound to a
\* model with predict (or a callable one) is answered 200 with the
\* request's name and what that model returns for x; an authorized execute
\* request for a name bound to a handler that returns is answered 200 with
\* the request's name and what that handler returns for the params, {} when
\* the body has none; the object bound to the name is invoked exactly once.
C12_SuccessPayload ==
  [][Answered =>
       LET req == srvLast'.req
           resp == srvLast'.resp
           model == srvModels[req.name]
           handler == srvHandlers[req.name]
           p == IF req.body.kind = "params" THEN req.body.val ELSE EmptyParams
       IN /\ (/\ req.route = "predict" /\ Authorized(req)
              /\ req.body.kind = "input" /\ model \in {"predicts", "callable"}) =>
               /\ resp.status = 200 /\ resp.kind = "prediction"
               /\ resp.name = req.name
               /\ resp.value = ModelOut(model, req.body.val)
               /\ Len(resp.calls) = 1
               /\ resp.calls[1].obj = model /\ resp.calls[1].arg = req.body.val
          /\ (/\ req.route = "execute" /\ Authorized(req)
              /\ req.body.kind # "malformed" /\ handler = "returns") =>
               /\ resp.status = 200 /\ resp.kind = "result"
               /\ resp.name = req.name
               /\ resp.value = HandlerOut(handler, p)
               /\ Len(resp.calls) = 1
               /\ resp.calls[1].obj = handler /\ resp.calls[1].arg = p]_vars

\* C12 witness: with two different models registered, a predict request for
\* one of them with input x2 was answered with that model's result for x2.
C12_Witness ==
  /\ srvModels["alpha"] = "callable" /\ srvModels["beta"] = "predicts"
  /\ srvLast.req.route = "predict" /\ srvLast.req.name = "beta"
  /\ srvLast.resp.status = 200
  /\ srvLast.resp.value = ModelOut("predicts", "x2")

\* C13: an authorized predict (execute) request for a name that is not in
\* the model (handler) registry is answered 404 with the message naming
\* that name and invokes nothing; SimpleMCPDemo.predict and execute_handler
\* return the error dictionary naming the name, invoke nothing and raise
\* nothing.
C13_NotFound ==
  [][/\ Answered =>
          LET req == srvLast'.req
              resp == srvLast'.resp
          IN /\ (/\ req.route = "predict" /\ req.verb = "POST" /\ Authorized(req)
                 /\ srvModels[req.name] = "absent") =>
                  /\ resp.status = 404 /\ resp.kind = "error"
                  /\ resp.msg = <<"Model", req.name, "not found">>
                  /\ resp.calls = <<>>
             /\ (/\ req.route = "execute" /\ req.verb = "POST" /\ Authorized(req)
                 /\ srvHandlers[req.name] = "absent") =>
                  /\ resp.status = 404 /\ resp.kind = "error"
                  /\ resp.msg = <<"Handler", req.name, "not found">>
                  /\ resp.calls = <<>>
     /\ (/\ host = "SimpleMCPDemo" /\ demoLast'.op = "predict"
         /\ DemoCallPredict(demoLast'.name, demoLast'.arg)
         /\ demoModels[demoLast'.name] = "absent") =>
          /\ demoLast'.kind = "error"
          /\ demoLast'.msg = <<"Model", demoLast'.name, "not found">>
          /\ demoLast'.calls = <<>>
     /\ (/\ host = "SimpleMCPDemo" /\ demoLast'.op = "execute_handler"
         /\ DemoCallExecute(demoLast'.name, demoLast'.arg)
         /\ demoHandlers[demoLast'.name] = "absent") =>
          /\ demoLast'.kind = "error"
          /\ demoLast'.msg = <<"Handler", demoLast'.name, "not found">>
          /\ demoLast'.calls = <<>>]_vars

\* C13 witness: with alpha registered as a model and beta not, an authorized
\* predict request for beta was answered 404.
C13_Witness ==
  /\ srvModels["alpha"] # "absent" /\ srvModels["beta"] = "absent"
  /\ srvLast.req.route = "predict" /\ srvLast.req.name = "beta"
  /\ Authorized(srvLast.req)
  /\ srvLast.resp.status = 404
  /\ srvLast.resp.msg = <<"Model", "beta", "not found">>

\* C14: when the model or handler that an authorized request resolves to
\* raises, the request is answered 500 with the message of what was raised,
\* and the step changes neither registry nor the running flag; so every
\* request answered afterwards sees the server as it was.
C14_FailureContained ==
  [][Answered =>
       LET req == srvLast'.req
           resp == srvLast'.resp
           failing ==
             \/ /\ req.route = "predict" /\ req.body.kind = "input"
                /\ srvModels[req.name] = "raises"
             \/ /\ req.route = "execute" /\ req.body.kind # "malformed"
                /\ srvHandlers[req.name] = "raises"
       IN (Authorized(req) /\ failing) =>
            /\ resp.status = 500 /\ resp.kind = "error"
            /\ resp.msg = <<"raised by", "raises">>
            /\ srvModels' = srvModels /\ srvHandlers' = srvHandlers
            /\ srvRunning' = srvRunning]_vars

\* C14 witness: a running server with a second model registered answered a
\* request whose handler raised with 500 and the handler's message.
C14_Witness ==
  /\ srvRunning
  /\ srvModels["beta"] = "predicts"
  /\ srvHandlers["alpha"] = "raises"
  /\ srvLast.req.route = "execute" /\ srvLast.req.name = "alpha"
  /\ srvLast.resp.status = 500
  /\ srvLast.resp.msg = Raised("raises")
  /\ Len(srvLast.resp.calls) = 1

\* C15: an authorized predict request for a registered model whose body has
\* no `input` (an object without the key, no body, a malformed body) is
\* answered 400, and the model is not invoked.
C15_MissingInput400 ==
  [][(/\ Answered
      /\ srvLast'.req.route = "predict"
      /\ Authorized(srvLast'.req)
      /\ srvModels[srvLast'.req.name] # "absent"
      /\ srvLast'.req.body.kind # "input") =>
       /\ srvLast'.resp.status = 400
       /\ srvLast'.resp.calls = <<>>]_vars

\* C16: an authorized list-models request is answered with a mapping whose
\* keys are exactly the names bound in the model registry at that moment,
\* whatever the handler registry holds; SimpleMCPDemo.list_models returns a
\* mapping with exactly the keys of its models.
C16_ListingKeys ==
  [][/\ (/\ Answered /\ srvLast'.req.route = "models"
         /\ srvLast'.req.verb = "GET" /\ Authorized(srvLast'.req)) =>
          /\ srvLast'.resp.status = 200 /\ srvLast'.resp.kind = "models"
          /\ DOMAIN srvLast'.resp.value[1] =
               {n \in Names : srvModels[n] # "absent"}
     /\ (host = "SimpleMCPDemo" /\ DemoCallListModels) =>
          /\ demoLast'.kind = "value"
          /\ DOMAIN demoLast'.value[1] =
               {n \in Names : demoModels[n] # "absent"}]_vars

\* C16 witness: with the model alpha and the handler beta registered, and no
\* model beta, the listing answered has the one key alpha.
C16_Witness ==
  /\ srvModels["alpha"] # "absent" /\ srvModels["beta"] = "absent"
  /\ srvHandlers["beta"] # "absent"
  /\ srvLast.req.route = "models" /\ srvLast.resp.status = 200
  /\ DOMAIN srvLast.resp.value[1] = {"alpha"}

(* ------------------------ claims on the client ----------------------- *)

\* The header the client's connector attaches is the one the server demands.
TokenMatches == srvToken = <<>> \/ peerAuth = Header(<<"Bearer", " ">> \o srvToken)

\* C17: an MCPClient over HTTP that has called connect() on a running
\* server gets from list_models() the listing of the registered models when
\* its token matches the server's credential and the failure value when it
\* does not; the POST that send_request('models', {}) makes is answered by
\* the models route with a payload.
C17_ListModelsEndToEnd ==
  (/\ connType = "http" /\ httpLib
   /\ cliLast.op = "list_models" /\ cliLast.afterConnect) =>
    IF TokenMatches
      THEN /\ cliLast.ret.kind = "dict"
           /\ cliLast.ret.body.kind = "models"
           /\ DOMAIN cliLast.ret.body.value[1] = {"alpha"}
           /\ HTTPPost("models", "", "", Body("empty", "")).kind = "dict"
      ELSE cliLast.ret = Absent

IsNone(r) == r.kind = "none"
IsDict(r) == r.kind = "dict"

\* The answer to the predict request for input x, or None.
ResultFor(r, x) ==
  \/ r = Absent
  \/ r.kind = "dict" /\ r.method = "predict" /\ r.name = "alpha" /\ r.arg = x

\* C18: batch_predict returns a list as long as the input list whose k-th
\* element is the result of predict for the k-th input, None where that
\* prediction failed; predict was called once per input, in input order.
C18_BatchKeepsOrder ==
  /\ cliPc = "batch" =>
       /\ Len(cliRes) = cliPos /\ cliAsked = SubSeq(cliIn, 1, cliPos)
       /\ \A k \in 1..Len(cliRes) : ResultFor(cliRes[k], cliIn[k])
  /\ (cliLast.op = "batch_predict" /\ cliLast.ret.kind # "raise") =>
       /\ Len(cliLast.results) = Len(cliIn)
       /\ cliLast.asked = cliIn
       /\ \A k \in 1..Len(cliIn) : ResultFor(cliLast.results[k], cliIn[k])

\* C18 witness: a batch of two inputs whose first prediction failed and
\* whose second succeeded returned [None, result of the second].
C18_Witness ==
  /\ cliLast.op = "batch_predict"
  /\ cliIn = <<"x1", "x2">>
  /\ Len(cliLast.results) = 2
  /\ cliLast.results[1] = Absent
  /\ cliLast.results[2].kind = "dict" /\ cliLast.results[2].arg = "x2"

\* C19: the generator of stream_predictions does nothing before the first
\* next(); it predicts at most once per input, in order; what it has
\* yielded is exactly the results that are not None, in order; when it is
\* suspended the last input it took is the one whose result it yielded; and
\* once it is finished it takes no input, predicts nothing and yields
\* nothing.
C19_StreamLazySkipping ==
  /\ [](/\ genState \in {"none", "created"} =>
             genPos = 0 /\ genLog = <<>> /\ genOut = <<>>
        /\ Len(genLog) = genPos /\ genPos <= Len(cliIn)
        /\ \A k \in 1..Len(genLog) : ResultFor(genLog[k], cliIn[k])
        /\ genOut = SelectSeq(genLog, IsDict)
        /\ genState = "suspended" => genPos > 0 /\ IsDict(genLog[genPos])
        /\ cliPc # "next" => genState # "running")
  /\ [][/\ genState = "done" =>
             /\ genState' = "done" /\ genPos' = genPos
             /\ genLog' = genLog /\ genOut' = genOut
        /\ cliPc # "next" => genPos' = genPos /\ genLog' = genLog]_vars

\* C19 witness: a stream over two inputs whose first prediction failed has
\* yielded the second result only, and is finished.
C19_Witness ==
  /\ genState = "done"
  /\ cliIn = <<"x1", "x2">>
  /\ genLog[1] = Absent /\ genLog[2].kind = "dict"
  /\ Len(genOut) = 1 /\ genOut[1].arg = "x2"
  /\ cliLast.op = "next" /\ cliLast.stop

\* C20: no client call ends in an exception; a call made while the client's
\* flag is not set returns None (False for health_check) without calling
\* the connector, connect and health_check return a boolean, and a failure
\* inside the connector's send_request comes back as None.
C20_ClientNeverRaises ==
  /\ cliLast.ret.kind # "raise"
  /\ \A k \in 1..Len(genLog) : genLog[k].kind # "raise"
  /\ (/\ cliLast.op \in {"list_models", "predict", "execute_handler"}
      /\ cliLast.sends = 0) => cliLast.ret = Absent
  /\ (cliLast.op = "health_check" /\ cliLast.sends = 0) => ~cliLast.ok
  /\ cliLast.op \in {"connect", "health_check", "disconnect"} =>
       cliLast.ret = Absent
  /\ (connType \in {"http", "websocket"} /\ cliLast.op = "batch_predict") =>
       \A k \in 1..Len(cliLast.results) : cliLast.results[k] = Absent

\* C20 witness: on a client whose WebSocket connector is Connected, predict
\* called the connector's send_request, whose try block failed, and
\* returned None.
C20_Witness ==
  /\ connType = "websocket"
  /\ cliConnected /\ wsConnected /\ wsHandle # 0
  /\ cliLast.op = "predict" /\ cliLast.sends = 1
  /\ cliLast.ret = Absent

(* ------------------- claims on the client's lifecycle ---------------- *)

\* C21: whenever MCPClient.is_connected is read, it is true if and only if
\* the client's own flag is set and the connector reports Connected; so it
\* is false after a close or error callback of the transport although the
\* client never called disconnect().
C21_IsConnectedBothFlags ==
  [][CliIsConnected =>
       /\ cliLast'.ok = (cliConnected /\ cliLast'.connFlag)
       /\ connType = "http" => cliLast'.connFlag = httpConnected
       /\ connType = "websocket" => cliLast'.connFlag = wsConnected]_vars

\* C21 witness: a WebSocket client whose connect() succeeded and whose
\* socket then closed or failed reads is_connected: false, with its own flag
\* still set and the handle still held.
C21_Witness ==
  /\ connType = "websocket"
  /\ cliLast.op = "is_connected" /\ ~cliLast.ok
  /\ cliConnected /\ ~wsConnected
  /\ wsHandle # 0 /\ sock[wsHandle] \in {"closed", "errored"}

\* The step is the return of MCPClient.connect.
ConnectReturns == (CliConnect \/ CliConnectStep) /\ cliPc' = "idle"

\* C22: MCPClient.connect() calls the connector's connect() once and, when
\* that returns, returns its result and stores it as the client's flag (the
\* built connectors always return); MCPClient.disconnect()
\* calls the connector's disconnect() and clears the flag, leaving client
\* and connector not connected and the transport handle released.
C22_ConnectDisconnectDelegate ==
  [][/\ ConnectReturns => cliLast'.op = "connect"
     /\ (ConnectReturns /\ ~cliLast'.caught) =>
          /\ cliConnected' = cliLast'.ok
          /\ connType # "base" =>
               /\ last'.op = "connect" /\ last'.conn = ConnName
               /\ last'.ok = cliLast'.ok
     /\ (CliConnect \/ CliConnectStep) =>
          /\ httpMade' + wsMade' <= httpMade + wsMade + 1
          /\ CliConnectStep => httpMade' + wsMade' = httpMade + wsMade
     /\ CliDisconnect =>
          /\ ~cliConnected'
          /\ connType = "http" => ~httpConnected' /\ httpSession' = 0
          /\ connType = "websocket" => ~wsConnected' /\ wsHandle' = 0
          /\ connType # "base" =>
               last'.op = "disconnect" /\ last'.conn = ConnName]_vars

\* C22 witness: a WebSocket client was connected (connect() returned True
\* and the flag was set) and has then been disconnected.
C22_Witness ==
  /\ connType = "websocket"
  /\ cliLast.op = "disconnect" /\ cliLast.afterConnect
  /\ last.op = "disconnect" /\ last.pre
  /\ ~cliConnected /\ ~wsConnected /\ wsHandle = 0

(* ------------------- claims on the server's lifecycle ---------------- *)

\* C23: the running flag is false after construction, true after start()
\* and false after stop(); start() with the flag set changes nothing: the
\* flag stays set and no thread is given app.run.
C23_RunningFlag ==
  /\ [](/\ srvCall.op = "none" => ~srvRunning
        /\ srvCall.op = "start" => srvRunning
        /\ srvCall.op = "stop" => ~srvRunning
        /\ (srvCall.op = "start" /\ srvCall.pre) => srvCall.launched = 0)
  /\ [][/\ SrvStart => srvRunning'
        /\ SrvStop => ~srvRunning'
        /\ (SrvStart /\ srvRunning) => UNCHANGED <<srvRunning, srvThreads>>
        /\ srvRunning => Len(srvThreads') = Len(srvThreads)]_vars

\* C23 witness: start() was called on a started server; one thread exists.
C23_Witness ==
  /\ srvCall = [op |-> "start", pre |-> TRUE, launched |-> 0]
  /\ srvRunning
  /\ Len(srvThreads) = 1

\* C24: is_running is true exactly when the server is bound and accepting:
\* with the flag cleared by stop() no thread accepts requests any more, and
\* the flag is not set while every thread given app.run has ended.
C24_FlagMatchesServing ==
  /\ ~srvRunning => ~Accepting
  /\ srvRunning => \E i \in 1..Len(srvThreads) : srvThreads[i].st # "exited"

\* C25: register_model(n, m) binds n to m in the model registry, in place of
\* any earlier entry, and leaves every other entry, the handler registry and
\* the running flag with its threads as they were; register_handler does
\* the same in the handler registry; so do the two of SimpleMCPDemo in its
\* registries.
C25_RegisterFrame ==
  [][/\ \A name \in Names, model \in ModelKinds :
          /\ (host = "MCPServer" /\ RegisterModel(name, model)) =>
               /\ srvModels'[name] = model
               /\ \A n \in Names \ {name} : srvModels'[n] = srvModels[n]
               /\ UNCHANGED <<srvHandlers, srvRunning, srvThreads>>
          /\ (host = "SimpleMCPDemo" /\ DemoRegisterModel(name, model)) =>
               /\ demoModels'[name] = model
               /\ \A n \in Names \ {name} : demoModels'[n] = demoModels[n]
               /\ UNCHANGED demoHandlers
     /\ \A name \in Names, handler \in HandlerKinds :
          /\ (host = "MCPServer" /\ RegisterHandler(name, handler)) =>
               /\ srvHandlers'[name] = handler
               /\ \A n \in Names \ {name} : srvHandlers'[n] = srvHandlers[n]
               /\ UNCHANGED <<srvModels, srvRunning, srvThreads>>
          /\ (host = "SimpleMCPDemo" /\ DemoRegisterHandler(name, handler)) =>
               /\ demoHandlers'[name] = handler
               /\ \A n \in Names \ {name} : demoHandlers'[n] = demoHandlers[n]
               /\ UNCHANGED demoModels]_vars

\* C25 witness: on a running server a prediction was answered by the model
\* first bound to alpha, and alpha is now bound to another model, beside
\* an entry for beta and a handler.
C25_Witness ==
  /\ srvRunning
  /\ srvLast.req.route = "predict" /\ srvLast.req.name = "alpha"
  /\ srvLast.resp.status = 200
  /\ srvLast.resp.value = ModelOut("predicts", "x1")
  /\ srvModels["alpha"] = "callable"
  /\ srvModels["beta"] = "predicts"
  /\ srvHandlers["alpha"] = "returns"

\* C26: a `with client:` statement calls connect() on entry and disconnect()
\* on every way out: when the statement is left, by the end of the body or by
\* an exception of the body, and also when the connect on entry failed, the
\* client and its connector are not connected and the handle is released.
C26_ScopedConnection ==
  /\ [](/\ withPc = "body" => cliLast.op = "connect"
        /\ withPc \in {"done", "raised"} =>
             /\ cliLast.op = "disconnect"
             /\ ~cliConnected
             /\ connType = "http" => ~httpConnected /\ httpSession = 0
             /\ connType = "websocket" => wsHandle = 0)
  /\ [][CliExit =>
          /\ ~cliConnected'
          /\ connType = "http" => ~httpConnected' /\ httpSession' = 0
          /\ connType = "websocket" => ~wsConnected' /\ wsHandle' = 0]_vars

\* C26 witness: the body of a with statement over a connected WebSocket
\* client raised, and the statement was left with the client disconnected.
C26_Witness ==
  /\ connType = "websocket"
  /\ withPc = "raised"
  /\ cliLast.op = "disconnect" /\ cliLast.afterConnect
  /\ last.op = "disconnect" /\ last.pre
  /\ ~cliConnected /\ ~wsConnected /\ wsHandle = 0

(* ---------------------- claims on the two bindings ------------------- *)

\* C27: the WebSocket binding gives the payload the HTTP binding gives: a
\* request made by a WebSocket client in the connected state returns what
\* HTTPConnector.send_request returns in the connected state for the same
\* method and params against the same server.
C27_BindingsAgree ==
  [][(connType = "websocket" /\ cliConnected /\ ~WSNotConnected) =>
       /\ \A name \in Names, x \in Inputs :
            CliRequest("predict", "predict", name, x, Body("input", x)) =>
              cliLast'.ret = HTTPPost("predict", name, x, Body("input", x))
       /\ \A name \in Names, p \in Params :
            CliRequest("execute_handler", "execute", name, p, Body("params", p)) =>
              cliLast'.ret = HTTPPost("execute", name, p, Body("params", p))
       /\ CliHealthCheck =>
            cliLast'.ok = (HTTPPost("health_check", "", "", Body("empty", "")).kind
                             = "dict")]_vars

(* ----------------------- claims on the responses --------------------- *)

\* The response is one of the two alternatives: a success payload with
\* status 200 and no error, or an error payload with its message, a status
\* among 400, 401, 404 and 500, and no success field.
ExactlyOne(resp) ==
  \/ /\ SuccessFields(resp) /\ ~ErrorField(resp)
     /\ resp.status = 200 /\ resp.msg = <<>>
  \/ /\ ErrorField(resp) /\ ~SuccessFields(resp)
     /\ resp.status \in {400, 401, 404, 500}
     /\ resp.msg # <<>> /\ resp.value = NoValue /\ resp.name = ""

C29_SimpleConnectorLifecycle ==
  /\ [](/\ simLast.op = "none" => ~simConnected
        /\ simLast.op = "connect" => simLast.ok /\ simConnected
        /\ simLast.op = "disconnect" => ~simConnected
        /\ simLast.op = "send_request" =>
             IF simLast.pre
               THEN /\ simLast.ret.kind = "echo" /\ simLast.ret.error = ""
                    /\ simLast.ret.method = simLast.method
                    /\ simLast.ret.params = simLast.params
               ELSE simLast.ret = SimError
        /\ simLast.op = "is_connected" => simLast.ok = simConnected
        /\ ENABLED SimDisconnect)
  /\ [][/\ SimConnect => simConnected'
        /\ SimDisconnect => ~simConnected'
        /\ \A method \in SimMethods, params \in SimParams :
             SimSendRequest(method, params) =>
               /\ simLast'.pre = simConnected
               /\ simLast'.method = method /\ simLast'.params = params
               /\ simConnected' = simConnected]_vars

\* C29 witness: right after a disconnect() the connector is sent a request
\* and answers 'Not connected'.
C29_Witness ==
  /\ simLast.op = "send_request" /\ simLast.prev = "disconnect"
  /\ simLast.method = "test_method"
  /\ simLast.ret = SimError
  /\ ~simConnected

(* ------------------------ claims on construction --------------------- *)

\* No call has been made on the client or on its connector, and none is
\* in progress.
Constructed ==
  /\ cliLast = NoCliCall /\ last = NoCall
  /\ cliPc = "idle" /\ wsPc = "idle" /\ sendPc = "idle"
  /\ withPc = "out" /\ genState = "none"

\* C30: a newly constructed HTTPConnector or WebSocketConnector is not
\* Connected and holds no transport handle, and a newly constructed
\* MCPClient reports is_connected false; no transport was opened and
\* nothing was sent.
C30_FreshNotConnected ==
  Constructed =>
    /\ ~httpConnected /\ httpSession = 0
    /\ ~wsConnected /\ wsHandle = 0
    /\ httpMade = 0 /\ wsMade = 0
    /\ \A s \in Sockets : sock[s] = "unborn"
    /\ httpPosts = 0 /\ wsFrames = 0 /\ srvLast = NoRequest
    /\ ~cliConnected
    /\ \A c \in ConnectorFlags : ~IsConnected(cliConnected, c)

\* C30 witness: a client built with a token and a WebSocket client built
\* with the longest timeout exist with nothing called on them.
C30_Witness ==
  /\ Constructed
  /\ \/ connType = "http" /\ peerAuth # NoHeader
     \/ connType = "websocket" /\ wsTimeout > 1


(* ------------------- claims on concurrent callers -------------------- *)

\* C31: a list_models view that runs while register_model is called ends
\* with status 200 and the listing of the registry as it was at some moment
\* of the view's run (when it began or after one of the registrations made
\* meanwhile), never with an error and never with a listing of no such
\* registry.
C31_ListingAtomic ==
  [][(srvListing.pc = "iterating" /\ srvListing'.pc = "none") =>
       /\ srvLast'.resp.status = 200
       /\ srvLast'.resp.kind = "models"
       /\ \E m \in srvListing.snaps :
            srvLast'.resp.value[1] = Listing(m)]_vars

\* C33: at no moment does an MCPServer have more than one live thread that
\* start() gave app.run to, whether the start() calls race or one follows a
\* stop().
C33_OneServingThread ==
  Cardinality({i \in 1..Len(srvThreads) : srvThreads[i].st # "exited"}) <= 1


\* C32: whenever the WebSocketConnector's flag is set, the connector holds
\* a socket handle and the open signal came from that socket: the flag is
\* never set without a handle, beside a handle whose socket has not opened,
\* or by the socket of an earlier connect().
C32_FlagIsOfCurrentSocket ==
  (connType = "websocket" /\ wsConnected) =>
    (wsHandle # 0 /\ sock[wsHandle] \in {"open", "openC"})


(* ---------------------- claims on what is written -------------------- *)

\* the _is_connected of the connector the client built
ConnectorState == <<httpConnected, wsConnected>>

\* The step is (part of) a call operation of the client, or a read of
\* is_connected.
CallOperation ==
  \/ CliListModels \/ CliPredict \/ CliExecuteHandler \/ CliHealthCheck
  \/ CliBatchPredict \/ CliBatchStep \/ CliBatchReturn
  \/ CliStreamPredictions \/ CliNext \/ GenStep
  \/ CliIsConnected

\* C34: the connector's connection flag is left as it was by every call
\* operation of the client (list_models, predict, execute_handler,
\* health_check, batch_predict, stream_predictions) with the send_request
\* and health_check of the connector they call, whether they succeed or
\* fail; a step that changes it is a connect(), a disconnect() or a
\* callback of the WebSocket thread.
C34_ConnectorStateFrame ==
  [][/\ CallOperation => UNCHANGED ConnectorState
     /\ ~UNCHANGED ConnectorState =>
          (CliConnect \/ CliConnectStep \/ CliDisconnect \/ CliCallback)]_vars

\* a call operation has called send_request on a Connected WebSocket
\* connector, and failed
C34_Witness ==
  /\ connType = "websocket"
  /\ cliLast.op \in {"list_models", "predict", "execute_handler", "health_check"}
  /\ cliLast.sends = 1
  /\ cliLast.ret.kind = "none"
  /\ wsConnected /\ wsHandle # 0


\* C35: over every step of a server (start(), stop(), a serving thread
\* binding or ending, the dispatch of a request that succeeds, is
\* unauthorized, finds nothing, is malformed or fails in the callable, a
\* registration) the names registered as models and as handlers only grow;
\* start(), stop(), the threads and the dispatch leave both registries as
\* they were, and a step that changes a registry is a register_model or a
\* register_handler.
C35_RegistriesOnlyGrow ==
  [][/\ Registered(srvModels) \subseteq Registered(srvModels')
     /\ Registered(srvHandlers) \subseteq Registered(srvHandlers')
     /\ (SrvStart \/ SrvStop \/ RunThread \/ RunServe) =>
          UNCHANGED <<srvModels, srvHandlers>>
     /\ ~UNCHANGED <<srvModels, srvHandlers>> => RunRegister]_vars

\* a model was registered under a second name, the server was started and
\* stopped, the thread left serving has answered a request with an error,
\* and both names are still registered
C35_Witness ==
  /\ Registered(srvModels) = Names
  /\ srvCall.op = "stop"
  /\ srvLast.req.route \in {"predict", "execute"}
  /\ srvLast.resp.status >= 400


(* ------------------------ claims on the headers ---------------------- *)

\* C36: the session an HTTPConnector holds after connect(), through which
\* the probe of connect() and every later request go, carries
\* 'Authorization: Bearer <auth_token>' when a token is configured and no
\* Authorization header when none is; so does the handshake of every
\* WebSocketApp a WebSocketConnector has made.
C36_BearerOnEveryRequest ==
  LET carries(hdr) ==
        IF connToken = <<>>
          THEN ~hdr.present
          ELSE hdr.present /\ hdr.value = <<"Bearer", " ">> \o connToken
  IN /\ (connType = "http" /\ httpSession # 0) => carries(httpAuth)
     /\ connType = "websocket" =>
          \A s \in Sockets : sock[s] # "unborn" => carries(wsAuth[s])

\* a WebSocketConnector with a token has made its second socket, which is
\* open, with the header in its handshake
C36_Witness ==
  /\ connType = "websocket"
  /\ connToken = <<"secret">>
  /\ wsMade = 2
  /\ sock[2] = "open"
  /\ wsAuth[2] = Header(<<"Bearer", " ", "secret">>)

====
